---- MODULE Spec2Model ----
(***************************************************************************)
(* A model of src/app_prod.py: the OAuth token store and refresher, the    *)
(* two-tier receipt cache, the fetch-and-cache orchestrator and the        *)
(* background worker queue.                                                *)
(*                                                                         *)
(* Conventions.                                                            *)
(*  - A Python value that may be None is a sequence of length 0 or 1.      *)
(*  - Token strings are positive numbers; 0 is None / NULL / absent.       *)
(*  - The callers are a request thread and the background consumer;        *)
(*    every read or write of shared state is a step of its own, so the     *)
(*    steps of two callers interleave.                                     *)
(*  - A durable-store transaction follows PostgreSQL's default READ        *)
(*    COMMITTED level (create_engine sets no isolation level): a statement *)
(*    sees the rows committed when it starts, and commit applies the       *)
(*    transaction's changes.                                               *)
(***************************************************************************)
EXTENDS Integers, Sequences, FiniteSets, TLC

\* ----------------------------------------------------------------- bounds
MaxTime == 60
MaxIssued == 3
MaxVer == 2
MaxTasks == 3
MaxErrs == 2
MaxQueue == 2
MaxRows == 52

\* ------------------------------------------------------ program constants
Margin == 60
DefaultLifetime == 3600

Threads == {"req", "wrk"}
RequestThreads == {"req"}
TickSteps == {30}
Lifetimes == {30, 120}
StatusCodes == {200, 400}

VARIABLES
    SessionLocal,   \* BOOLEAN: a durable store is configured (DATABASE_URL set)
    now,            \* time.time(), in whole seconds
    tokens_table,   \* the rows of table tokens: [id, access_token, refresh_token, expires_at]
    token_seq,      \* the last value of the tokens.id sequence
    token_file,     \* TOKEN_FILE: <<>> (no file) or <<the token set>>
    issued,         \* how many access tokens the token endpoint has issued
    last_saved,     \* history: the token set of the most recently committed save_tokens
    pc,             \* each caller's position
    op,             \* what each caller is running: "refresh", "callback"
    rstat,          \* refresh_access_token in this caller: "none", "running", "returned", "raised"
    tokens,         \* refresh_access_token's local tokens
    tnow,           \* the time.time() read at line 190
    status,         \* r.status_code of the caller's last HTTP exchange (0: none made)
    new_tokens,     \* refresh_access_token's / callback's local new_tokens
    ret,            \* what refresh_access_token returned (0 is None)
    posts,          \* history: refresh exchanges made by the current invocation
    writes,         \* history: token-store writes committed by the current invocation
    snap,           \* save_tokens_db: the ids of the rows its DELETE statement saw
    cached_receipts,\* the rows of table cached_receipts
    INMEM_CACHE,    \* the process-local cache: a function from keys to payloads
    shape,          \* per external receipt: whether its document carries DocNumber, Id
    ver,            \* the version of the documents at the API
    rid,            \* the cache operation's argument receipt_id
    parsed,         \* fetch_and_cache_receipt's local parsed: <<>> or <<payload>>
    canon,          \* fetch_and_cache_receipt's local canonical_id
    existing,       \* cache_receipt_in_db's local existing (is there a row)
    wres,           \* how the caller's durable write ended
    cret,           \* what the cache operation returned: <<>> (None) or <<payload>>
    dbreads,        \* history: durable reads of table cached_receipts by the current operation
    WORKER_Q,       \* the queue of tasks: a sequence
    wloop,          \* worker_loop's position: "get" (at WORKER_Q.get()), "task", "dead"
    nEnq,           \* history: how many tasks have been put on WORKER_Q
    errs,           \* history: how many exceptions worker_loop has caught
    RECEIPTS_API_KEY, \* the configured static key, "" when none
    request,        \* history: the HTTP request handled last
    response,       \* the HTTP response to it, code 0 while it is handled
    document,       \* the argument s of a call of parse_salesreceipt (JNull: no call)
    record,         \* what the call returned
    outcome         \* "none", "returned" or "raised"

tokvars == <<tokens_table, token_seq, token_file, issued, last_saved>>
callvars == <<pc, op, rstat, tokens, tnow, status, new_tokens, ret, posts, writes, snap>>
cachevars == <<cached_receipts, INMEM_CACHE, shape, ver>>
fetchvars == <<rid, parsed, canon, existing, wres, cret, dbreads>>
workvars == <<WORKER_Q, wloop, nEnq, errs>>
httpvars == <<RECEIPTS_API_KEY, request, response>>
parsevars == <<document, record, outcome>>
vars == <<SessionLocal, now, tokvars, callvars, cachevars, fetchvars, workvars, httpvars, parsevars>>

NoNewTokens ==
    [access_token |-> 0, refresh_token |-> 0, has_expires_in |-> FALSE,
     expires_in |-> 0, expires_at |-> 0]

\* ------------------------------------------------------------ token store

MaxId(rows) == CHOOSE i \in {r.id : r \in rows} : \A r \in rows : r.id <= i

\* load_tokens_db: the row with the greatest id (order_by(Token.id.desc()).first()), or None.
load_tokens_db ==
    IF tokens_table = {} THEN <<>>
    ELSE LET t == CHOOSE r \in tokens_table : r.id = MaxId(tokens_table)
         IN  <<[access_token |-> t.access_token, refresh_token |-> t.refresh_token,
                expires_at |-> t.expires_at]>>

load_tokens_file == token_file

load_tokens == IF SessionLocal THEN load_tokens_db ELSE load_tokens_file

\* data.get('expires_in', 3600)
ExpiresIn(data) == IF data.has_expires_in THEN data.expires_in ELSE DefaultLifetime

\* A save that keeps the prior refresh token when the new set has none (a merge).
TokenRow_Merging(data, id, old) ==
    [id |-> id,
     access_token |-> data.access_token,
     refresh_token |-> IF data.refresh_token = 0 /\ old # <<>>
                       THEN old[1].refresh_token ELSE data.refresh_token,
     expires_at |-> now + ExpiresIn(data)]

\* The Token row save_tokens_db builds from data (lines 124-129).
TokenRow(data, id, old) ==
    [id |-> id,
     access_token |-> data.access_token,
     refresh_token |-> data.refresh_token,
     expires_at |-> now + ExpiresIn(data)]

\* What save_tokens_file leaves for load_tokens_file (json.dump of the whole dict).
TokenFileContent(data) ==
    [access_token |-> data.access_token, refresh_token |-> data.refresh_token,
     expires_at |-> data.expires_at]

\* ---------------------------------------------------------- token endpoint

\* An answer of the token endpoint: a status and, with 200, a body holding a new
\* access token, a rotated refresh token or none, and a lifetime or none.
TokenResponses ==
    [status : {200}, refresh : BOOLEAN, has_expires_in : {TRUE}, expires_in : Lifetimes]
    \cup [status : {200}, refresh : BOOLEAN, has_expires_in : {FALSE}, expires_in : {0}]
    \cup [status : StatusCodes \ {200}, refresh : {FALSE}, has_expires_in : {FALSE},
          expires_in : {0}]

\* r.json() with expires_at added (lines 202-203, 576-577).
NewTokens(resp) ==
    [access_token |-> IF resp.status = 200 THEN issued + 1 ELSE 0,
     refresh_token |-> IF resp.refresh THEN issued + 1 ELSE 0,
     has_expires_in |-> resp.has_expires_in,
     expires_in |-> resp.expires_in,
     expires_at |-> now + ExpiresIn(resp)]

\* ------------------------------------------------- refresh_access_token

\* A check with no margin.
TokenIsFresh_NoMargin(tok, t) == tok.access_token # 0 /\ t < tok.expires_at

\* tokens.get('access_token') and time.time() < tokens.get('expires_at', 0) - 60 (line 190)
TokenIsFresh(tok, t) == tok.access_token # 0 /\ t < tok.expires_at - Margin

\* A check that takes every answer for a success.
ExchangeSucceeded_Always(code) == TRUE

\* not (r.status_code != 200) (line 199)
ExchangeSucceeded(code) == code = 200

Rest == {"idle", "done", "raised"}

\* Where a caller goes when refresh_access_token returns v.
AfterRefresh(t, v) ==
    IF op[t] = "fetch" /\ v # 0 THEN "get"
    ELSE IF op[t] = "query" /\ v # 0 THEN "query"
    ELSE "done"

\* The locals of a new invocation.
Enter(t, o, p) ==
    /\ pc' = [pc EXCEPT ![t] = p]
    /\ op' = [op EXCEPT ![t] = o]
    /\ rstat' = [rstat EXCEPT ![t] = IF o = "callback" THEN "none" ELSE "running"]
    /\ tokens' = [tokens EXCEPT ![t] = <<>>]
    /\ tnow' = [tnow EXCEPT ![t] = 0]
    /\ status' = [status EXCEPT ![t] = 0]
    /\ ret' = [ret EXCEPT ![t] = 0]
    /\ posts' = [posts EXCEPT ![t] = 0]
    /\ writes' = [writes EXCEPT ![t] = 0]
    /\ snap' = [snap EXCEPT ![t] = {}]

\* A caller (qbo_query, qbo_get_salesreceipt_by_id, the consumer) calls
\* refresh_access_token.
call_refresh_access_token(t) ==
    /\ pc[t] \in Rest
    /\ Enter(t, "refresh", "load")
    /\ new_tokens' = [new_tokens EXCEPT ![t] = NoNewTokens]
    /\ UNCHANGED <<parsevars, httpvars, workvars, SessionLocal, now, tokvars, cachevars, fetchvars>>

\* refresh_access_token returns v.
Return(t, v) ==
    /\ pc' = [pc EXCEPT ![t] = AfterRefresh(t, v)]
    /\ rstat' = [rstat EXCEPT ![t] = "returned"]
    /\ ret' = [ret EXCEPT ![t] = v]

\* Lines 187-194: load_tokens (a failed durable read gives None), the margin check,
\* the refresh token.
refresh_access_token_load(t) ==
    /\ pc[t] = "load"
    /\ \E got \in {load_tokens} \cup (IF SessionLocal THEN {<<>>} ELSE {}) :
        /\ tokens' = [tokens EXCEPT ![t] = got]
        /\ tnow' = [tnow EXCEPT ![t] = now]
        /\ IF got = <<>> THEN Return(t, 0)
           ELSE IF TokenIsFresh(got[1], now) THEN Return(t, got[1].access_token)
           ELSE IF got[1].refresh_token = 0 THEN Return(t, 0)
           ELSE /\ pc' = [pc EXCEPT ![t] = "post"]
                /\ UNCHANGED <<rstat, ret>>
    /\ UNCHANGED <<parsevars, httpvars, workvars, SessionLocal, now, tokvars, op, status, new_tokens, posts, writes, snap,
                   cachevars, fetchvars>>

\* Line 198: requests.post raises.
refresh_access_token_raise(t) ==
    /\ pc[t] = "post"
    /\ posts' = [posts EXCEPT ![t] = @ + 1]
    /\ pc' = [pc EXCEPT ![t] = "raised"]
    /\ rstat' = [rstat EXCEPT ![t] = "raised"]
    /\ UNCHANGED <<parsevars, httpvars, workvars, SessionLocal, now, tokvars, op, tokens, tnow, status,
                   new_tokens, ret, writes, snap, cachevars, fetchvars>>

\* Lines 198-203: the token endpoint answers the refresh exchange with resp.
refresh_access_token_answer(t, resp) ==
    /\ pc[t] = "post"
    /\ posts' = [posts EXCEPT ![t] = @ + 1]
    /\ resp.status = 200 => issued < MaxIssued
    /\ status' = [status EXCEPT ![t] = resp.status]
    /\ IF ExchangeSucceeded(resp.status)
       THEN /\ new_tokens' = [new_tokens EXCEPT ![t] = NewTokens(resp)]
            /\ issued' = IF resp.status = 200 THEN issued + 1 ELSE issued
            /\ pc' = [pc EXCEPT ![t] = "store"]
            /\ UNCHANGED <<rstat, ret>>
       ELSE /\ Return(t, 0)
            /\ UNCHANGED <<issued, new_tokens>>
    /\ UNCHANGED <<parsevars, httpvars, workvars, SessionLocal, now, tokens_table, token_seq, token_file, last_saved,
                   op, tokens, tnow, writes, snap, cachevars, fetchvars>>

\* Lines 195-203: the refresh exchange. requests.post raises, or answers.
refresh_access_token_post(t) ==
    \/ refresh_access_token_raise(t)
    \/ \E resp \in TokenResponses : refresh_access_token_answer(t, resp)

\* save_tokens has returned: refresh_access_token returns the new access token
\* (line 205), callback redirects (line 580).
Saved(t) ==
    /\ IF op[t] = "callback"
       THEN /\ pc' = [pc EXCEPT ![t] = "done"]
            /\ UNCHANGED <<rstat, ret>>
       ELSE Return(t, new_tokens[t].access_token)
    /\ new_tokens' = [new_tokens EXCEPT ![t] = NoNewTokens]
    /\ snap' = [snap EXCEPT ![t] = {}]

\* save_tokens with no durable store: save_tokens_file overwrites TOKEN_FILE.
save_tokens_file(t) ==
    /\ pc[t] = "store"
    /\ ~SessionLocal
    /\ token_file' = <<TokenFileContent(new_tokens[t])>>
    /\ last_saved' = <<TokenFileContent(new_tokens[t])>>
    /\ writes' = [writes EXCEPT ![t] = @ + 1]
    /\ Saved(t)
    /\ UNCHANGED <<parsevars, httpvars, workvars, SessionLocal, now, tokens_table, token_seq, issued,
                   op, tokens, tnow, status, posts, cachevars, fetchvars>>

\* save_tokens_db, line 123: the DELETE statement marks the rows it sees.
save_tokens_db_delete(t) ==
    /\ pc[t] = "store"
    /\ SessionLocal
    /\ snap' = [snap EXCEPT ![t] = {r.id : r \in tokens_table}]
    /\ pc' = [pc EXCEPT ![t] = "commit"]
    /\ UNCHANGED <<parsevars, httpvars, workvars, SessionLocal, now, tokvars,
                   op, rstat, tokens, tnow, status, new_tokens, ret, posts, writes,
                   cachevars, fetchvars>>

\* save_tokens_db, lines 124-131: the INSERT and the COMMIT (s.commit() flushes the
\* pending row).
save_tokens_db_insert(t) ==
    /\ pc[t] = "commit"
    /\ LET row == TokenRow(new_tokens[t], token_seq + 1, load_tokens_db)
       IN  /\ tokens_table' = {r \in tokens_table : r.id \notin snap[t]} \cup {row}
           /\ token_seq' = token_seq + 1
           /\ last_saved' = <<[access_token |-> row.access_token,
                               refresh_token |-> row.refresh_token,
                               expires_at |-> row.expires_at]>>
           /\ writes' = [writes EXCEPT ![t] = @ + 1]
    /\ Saved(t)
    /\ UNCHANGED <<parsevars, httpvars, workvars, SessionLocal, now, token_file, issued,
                   op, tokens, tnow, status, posts, cachevars, fetchvars>>

\* save_tokens_db, lines 132-136: an exception of the try block, rolled back and logged.
save_tokens_db_rollback(t) ==
    /\ pc[t] = "commit"
    /\ Saved(t)
    /\ UNCHANGED <<parsevars, httpvars, workvars, SessionLocal, now, tokvars,
                   op, tokens, tnow, status, posts, writes, cachevars, fetchvars>>

\* save_tokens_db, lines 124-136.
save_tokens_db_commit(t) == save_tokens_db_insert(t) \/ save_tokens_db_rollback(t)

\* callback, lines 567-578: the code exchange, then save_tokens.
callback(t) ==
    /\ t \in RequestThreads
    /\ pc[t] \in Rest
    /\ \E resp \in TokenResponses :
        /\ resp.status = 200 => issued < MaxIssued
        /\ IF resp.status # 200
           THEN /\ Enter(t, "callback", "done")
                /\ UNCHANGED <<issued, new_tokens>>
           ELSE /\ Enter(t, "callback", "store")
                /\ new_tokens' = [new_tokens EXCEPT ![t] = NewTokens(resp)]
                /\ issued' = issued + 1
    /\ UNCHANGED <<parsevars, httpvars, workvars, SessionLocal, now, tokens_table, token_seq, token_file, last_saved,
                   cachevars, fetchvars>>

\* Time passes. Lines 202-205 and save_tokens make no network call: they run
\* within one reading of the clock.
Tick ==
    /\ \A t \in Threads : pc[t] \notin {"store", "commit"}
    /\ \E d \in TickSteps : now + d <= MaxTime /\ now' = now + d
    /\ UNCHANGED <<parsevars, httpvars, workvars, SessionLocal, tokvars, callvars, cachevars, fetchvars>>

\* ------------------------------------------------------- receipts at the API

Receipts == {"r1", "r2"}

\* Identifiers are strings in the code; here a key names what the string is: the
\* DocNumber or the Id of a receipt's document, or "R-<epoch-millis>".
Key(kind, r, ms) == [kind |-> kind, r |-> r, ms |-> ms]
DocKey(r) == Key("doc", r, 0)
IdKey(r) == Key("id", r, 0)
SynKey(ms) == Key("syn", "", ms)
NoKey == Key("none", "", 0)

\* The identifiers a request or a task may carry: the Id of a receipt, its DocNumber.
RequestIds == {IdKey(r) : r \in Receipts} \cup {DocKey(r) : r \in Receipts}

\* The raw SalesReceipt document of receipt r as the API holds it now.
Doc(r) ==
    [DocNumber |-> IF shape[r].doc THEN <<DocKey(r)>> ELSE <<>>,
     Id |-> IF shape[r].id THEN <<IdKey(r)>> ELSE <<>>,
     rcpt |-> r,
     ver |-> ver]

\* The envelopes fetch_and_cache_receipt accepts (lines 443-454).
Envelopes == {"SalesReceipt", "QueryResponse", "TopLevel"}

\* Lines 443-454: the raw document of response q, or None.
Unwrap(q) ==
    IF q.env = "SalesReceipt" THEN <<q.body[1]>>
    ELSE IF q.env = "QueryResponse"
         THEN (IF q.body = <<>> THEN <<>> ELSE <<q.body[1]>>)
         ELSE <<q.body[1]>>

\* What GET salesreceipt/<id> answers with status 200: the document of the receipt
\* with that Id, in one of the envelopes, or an empty query result.
ApiAnswers(id) ==
    IF id.kind = "id" /\ id.r \in Receipts
    THEN [env : Envelopes, body : {<<Doc(id.r)>>}] \cup [env : {"QueryResponse"}, body : {<<>>}]
    ELSE {}

\* int(time.time()*1000)
EpochMillis == now * 1000

\* parse_salesreceipt, line 283 (the receipt number) and a stand-in for the other
\* fields: which receipt, which version of its document.
parse_salesreceipt(s) ==
    [receiptNumber |-> IF s.DocNumber # <<>> THEN s.DocNumber[1]
                       ELSE IF s.Id # <<>> THEN s.Id[1]
                       ELSE SynKey(EpochMillis),
     rcpt |-> s.rcpt,
     ver |-> s.ver]

\* Line 459: parsed.get('receiptNumber') or raw.get('DocNumber') or raw.get('Id');
\* the receipt number is never empty.
CanonicalId(p, raw) == p.receiptNumber

\* ------------------------------------------------------------- HTTP requests

\* A JSON value: null, a string, an integer, a boolean, an object (keys, and the values
\* in kids), an array (kids); "unparsable" is a body that is no JSON. The text of a
\* string or an integer is a key: an identifier, or "" (NoKey).
Json(k, v, keys, kids) ==
    [k |-> k, v |-> v, keys |-> keys, kids |-> kids, n |-> 0, words |-> <<>>]
JStr(id) == Json("str", id, <<>>, <<>>)
JInt(id) == Json("int", id, <<>>, <<>>)
JTrue == Json("bool", Key("True", "", 0), <<>>, <<>>)
JNull == Json("null", NoKey, <<>>, <<>>)
JObj(keys, kids) == Json("obj", NoKey, keys, kids)
JArr(kids) == Json("arr", NoKey, <<>>, kids)
Unparsable == Json("unparsable", NoKey, <<>>, <<>>)

\* The keys an API client may send as x-app-key or api_key: none, the right one, a
\* wrong one.
NoApiKey == ""
ApiKeys == {"", "k", "bad"}

\* A query parameter that is to be an integer: absent, an integer, or other text.
Arg(kind, n) == [kind |-> kind, n |-> n]
NoArg == Arg("absent", 0)
IntArg(n) == Arg("int", n)
TextArg == Arg("text", 0)

Request(endpoint, header, q, id, body) ==
    [endpoint |-> endpoint, header |-> header, q |-> q, id |-> id, body |-> body,
     args |-> <<NoArg, NoArg>>]

\* GET /receipts?page=&per_page=
ListRequest(header, q, page, per_page) ==
    [Request("receipts", header, q, NoKey, JNull) EXCEPT !.args = <<page, per_page>>]
NoRequest == Request("", "", "", NoKey, JNull)

\* An HTTP response: the status code, what the body is, and the body's fields.
Response(code, kind, upstream, queued, receipt) ==
    [code |-> code, kind |-> kind, status |-> upstream, queued |-> queued, receipt |-> receipt,
     paging |-> <<>>]
NoResponse == Response(0, "", 0, {}, <<>>)

\* The response of a listing: the receipts, page, per_page and total.
ListResponse(items, page, per_page, total) ==
    [Response(200, "receipts", 0, {}, items) EXCEPT !.paging = <<page, per_page, total>>]

\* ------------------------------------------------------------ receipt cache

CachePut(cache, k, v) == [x \in DOMAIN cache \cup {k} |-> IF x = k THEN v ELSE cache[x]]
CacheDrop(cache, k) == [x \in DOMAIN cache \ {k} |-> cache[x]]
Rows(k) == {row \in cached_receipts : row.receipt_id = k}

\* The locals of a new cache operation.
EnterCache(t, id) ==
    /\ rid' = [rid EXCEPT ![t] = id]
    /\ parsed' = [parsed EXCEPT ![t] = <<>>]
    /\ canon' = [canon EXCEPT ![t] = NoKey]
    /\ existing' = [existing EXCEPT ![t] = FALSE]
    /\ wres' = [wres EXCEPT ![t] = "none"]
    /\ dbreads' = [dbreads EXCEPT ![t] = 0]

\* A cache operation returns or raises: its locals are gone.
LeaveCache(t) ==
    /\ rid' = [rid EXCEPT ![t] = NoKey]
    /\ parsed' = [parsed EXCEPT ![t] = <<>>]
    /\ canon' = [canon EXCEPT ![t] = NoKey]
    /\ existing' = [existing EXCEPT ![t] = FALSE]

\* qbo_get_salesreceipt_by_id has the access token (line 268): the locals of
\* refresh_access_token are gone.
LeaveRefresh(t) ==
    /\ tokens' = [tokens EXCEPT ![t] = <<>>]
    /\ tnow' = [tnow EXCEPT ![t] = 0]
    /\ ret' = [ret EXCEPT ![t] = 0]
    /\ posts' = [posts EXCEPT ![t] = 0]
    /\ writes' = [writes EXCEPT ![t] = 0]

\* fetch_and_cache_receipt(id) is called: line 437 calls qbo_get_salesreceipt_by_id,
\* which calls refresh_access_token (line 268).
fetch_and_cache_receipt_call(t, id) ==
    /\ EnterCache(t, id)
    /\ Enter(t, "fetch", "load")
    /\ new_tokens' = [new_tokens EXCEPT ![t] = NoNewTokens]
    /\ cret' = [cret EXCEPT ![t] = <<>>]
    /\ UNCHANGED <<parsevars, workvars, SessionLocal, now, tokvars, cachevars>>

\* Some caller calls fetch_and_cache_receipt with some identifier.
call_fetch_and_cache_receipt(t) ==
    /\ pc[t] \in Rest
    /\ \E id \in RequestIds : fetch_and_cache_receipt_call(t, id)
    /\ UNCHANGED httpvars

\* A durable write that raises out of cache_receipt_in_db.
AfterWriteError_Raise(t) == "raised"

\* Lines 407-411: an exception of the try block is rolled back and logged;
\* cache_receipt_in_db returns and line 461 is next.
AfterWriteError(t) == "mem"

\* Lines 271-277 and 439-459: requests.get raises, or answers; a non-200 answer and an
\* empty document return None; otherwise the document is parsed and its canonical id
\* computed. Line 388: with no durable store cache_receipt_in_db returns at once.
qbo_get_salesreceipt_by_id(t) ==
    /\ pc[t] = "get"
    /\ \/ /\ pc' = [pc EXCEPT ![t] = "raised"]
          /\ status' = [status EXCEPT ![t] = 0]
          /\ LeaveCache(t)
          /\ UNCHANGED wres
       \/ /\ \E code \in StatusCodes \ {200} : status' = [status EXCEPT ![t] = code]
          /\ pc' = [pc EXCEPT ![t] = "done"]
          /\ LeaveCache(t)
          /\ UNCHANGED wres
       \/ \E q \in ApiAnswers(rid[t]) :
            LET raw == Unwrap(q) IN
            /\ status' = [status EXCEPT ![t] = 200]
            /\ IF raw = <<>>
               THEN /\ pc' = [pc EXCEPT ![t] = "done"]
                    /\ LeaveCache(t)
                    /\ UNCHANGED wres
               ELSE LET p == parse_salesreceipt(raw[1]) IN
                    /\ parsed' = [parsed EXCEPT ![t] = <<p>>]
                    /\ canon' = [canon EXCEPT ![t] = CanonicalId(p, raw[1])]
                    /\ pc' = [pc EXCEPT ![t] = IF SessionLocal THEN "select" ELSE "mem"]
                    /\ wres' = [wres EXCEPT ![t] = IF SessionLocal THEN "none" ELSE "nostore"]
                    /\ UNCHANGED <<rid, existing>>
    /\ LeaveRefresh(t)
    /\ UNCHANGED <<parsevars, httpvars, workvars, SessionLocal, now, tokvars, op, rstat, new_tokens,
                   snap, cachevars, cret, dbreads>>

\* cache_receipt_in_db, line 392: the SELECT, or an exception of it.
cache_receipt_in_db_select(t) ==
    /\ pc[t] = "select"
    /\ \/ /\ existing' = [existing EXCEPT ![t] = Rows(canon[t]) # {}]
          /\ dbreads' = [dbreads EXCEPT ![t] = @ + 1]
          /\ pc' = [pc EXCEPT ![t] = "write"]
          /\ UNCHANGED wres
       \/ /\ wres' = [wres EXCEPT ![t] = "error"]
          /\ pc' = [pc EXCEPT ![t] = AfterWriteError(t)]
          /\ UNCHANGED <<existing, dbreads>>
    /\ UNCHANGED <<parsevars, httpvars, workvars, SessionLocal, now, tokvars, op, rstat, tokens, tnow, status, new_tokens,
                   ret, posts, writes, snap, cachevars, rid, parsed, canon, cret>>

\* An update that also restamps created_at.
UpdatedRow_Restamp(row, p, raw) ==
    [row EXCEPT !.payload = p, !.raw = raw, !.updated_at = now, !.created_at = now]

\* Lines 394-396: the existing row with its payload, raw and updated_at replaced.
UpdatedRow(row, p, raw) ==
    [row EXCEPT !.payload = p, !.raw = raw, !.updated_at = now]

\* Lines 398-404: a new row.
NewRow(k, p, raw) ==
    [receipt_id |-> k, receipt_number |-> p.receiptNumber, created_at |-> now,
     updated_at |-> now, payload |-> p, raw |-> raw]

\* The raw column: the document the payload was parsed from.
RawOf(p) == <<p.rcpt, p.ver>>

\* cache_receipt_in_db, lines 393-411: the UPDATE of the row the SELECT found, or the
\* INSERT, and the COMMIT; the INSERT of a receipt_id that another transaction has
\* committed since the SELECT violates the unique index and raises; an exception is
\* rolled back and logged.
cache_receipt_in_db_write(t) ==
    /\ pc[t] = "write"
    /\ LET k == canon[t]
           p == parsed[t][1]
       IN  \/ /\ existing[t]
              /\ cached_receipts' = {IF row.receipt_id = k THEN UpdatedRow(row, p, RawOf(p))
                                     ELSE row : row \in cached_receipts}
              /\ wres' = [wres EXCEPT ![t] = "committed"]
              /\ pc' = [pc EXCEPT ![t] = "mem"]
           \/ /\ ~existing[t] /\ Rows(k) = {}
              /\ cached_receipts' = cached_receipts \cup {NewRow(k, p, RawOf(p))}
              /\ wres' = [wres EXCEPT ![t] = "committed"]
              /\ pc' = [pc EXCEPT ![t] = "mem"]
           \/ /\ ~existing[t] /\ Rows(k) # {}
              /\ wres' = [wres EXCEPT ![t] = "conflict"]
              /\ pc' = [pc EXCEPT ![t] = AfterWriteError(t)]
              /\ UNCHANGED cached_receipts
           \/ /\ wres' = [wres EXCEPT ![t] = "error"]
              /\ pc' = [pc EXCEPT ![t] = AfterWriteError(t)]
              /\ UNCHANGED cached_receipts
    /\ UNCHANGED <<parsevars, httpvars, workvars, SessionLocal, now, tokvars, op, rstat, tokens, tnow, status, new_tokens,
                   ret, posts, writes, snap, INMEM_CACHE, shape, ver,
                   rid, parsed, canon, existing, cret, dbreads>>

\* Lines 461-462: INMEM_CACHE[canonical_id] = parsed; return parsed.
fetch_and_cache_receipt_mem(t) ==
    /\ pc[t] = "mem"
    /\ INMEM_CACHE' = CachePut(INMEM_CACHE, canon[t], parsed[t][1])
    /\ cret' = [cret EXCEPT ![t] = parsed[t]]
    /\ pc' = [pc EXCEPT ![t] = "done"]
    /\ LeaveCache(t)
    /\ UNCHANGED <<parsevars, httpvars, workvars, SessionLocal, now, tokvars, op, rstat, tokens, tnow, status, new_tokens,
                   ret, posts, writes, snap, cached_receipts, shape, ver,
                   wres, dbreads>>

\* A get that does not backfill.
Backfill_None(cache, id, p) == cache

\* Line 425: INMEM_CACHE[receipt_id] = r.payload
Backfill(cache, id, p) == CachePut(cache, id, p)

\* get_cached_receipt_db(id), lines 416-419: the process-local cache first; on a miss
\* with no durable store, None.
get_cached_receipt_db_call(t, id) ==
    /\ rid' = [rid EXCEPT ![t] = id]
    /\ IF id \in DOMAIN INMEM_CACHE
       THEN /\ pc' = [pc EXCEPT ![t] = "done"]
            /\ cret' = [cret EXCEPT ![t] = <<INMEM_CACHE[id]>>]
       ELSE /\ pc' = [pc EXCEPT ![t] = IF SessionLocal THEN "gdb" ELSE "done"]
            /\ cret' = [cret EXCEPT ![t] = <<>>]
    /\ op' = [op EXCEPT ![t] = "get"]
    /\ rstat' = [rstat EXCEPT ![t] = "none"]
    /\ wres' = [wres EXCEPT ![t] = "none"]
    /\ dbreads' = [dbreads EXCEPT ![t] = 0]
    /\ status' = [status EXCEPT ![t] = 0]
    /\ LeaveRefresh(t)
    /\ UNCHANGED <<parsevars, workvars, SessionLocal, now, tokvars, new_tokens, snap, cachevars,
                   parsed, canon, existing>>

\* Some request handler calls get_cached_receipt_db with some identifier.
get_cached_receipt_db_mem(t) ==
    /\ t \in RequestThreads
    /\ pc[t] \in Rest
    /\ \E id \in RequestIds \cup DOMAIN INMEM_CACHE
                \cup {row.receipt_id : row \in cached_receipts} :
        get_cached_receipt_db_call(t, id)
    /\ UNCHANGED httpvars

\* get_cached_receipt_db, lines 420-431: the SELECT by receipt_id; a row found is
\* written to the process-local cache and returned; no row, or an exception, gives
\* None.
get_cached_receipt_db_select(t) ==
    /\ pc[t] = "gdb"
    /\ \/ /\ dbreads' = [dbreads EXCEPT ![t] = @ + 1]
          /\ IF Rows(rid[t]) = {}
             THEN UNCHANGED <<INMEM_CACHE, cret>>
             ELSE LET r == CHOOSE row \in Rows(rid[t]) : TRUE IN
                  /\ INMEM_CACHE' = Backfill(INMEM_CACHE, rid[t], r.payload)
                  /\ cret' = [cret EXCEPT ![t] = <<r.payload>>]
          /\ UNCHANGED wres
       \/ /\ wres' = [wres EXCEPT ![t] = "error"]
          /\ UNCHANGED <<INMEM_CACHE, cret, dbreads>>
    /\ pc' = [pc EXCEPT ![t] = "done"]
    /\ UNCHANGED <<parsevars, httpvars, workvars, SessionLocal, now, tokvars, op, rstat, tokens, tnow, status, new_tokens,
                   ret, posts, writes, snap, cached_receipts, shape, ver,
                   rid, parsed, canon, existing>>

\* INMEM_CACHE = TTLCache(maxsize=1024, ttl=300) (line 84): an entry expires, or is
\* evicted.
Expire ==
    /\ \E k \in DOMAIN INMEM_CACHE : INMEM_CACHE' = CacheDrop(INMEM_CACHE, k)
    /\ UNCHANGED <<parsevars, httpvars, workvars, SessionLocal, now, tokvars, callvars, cached_receipts, shape, ver,
                   fetchvars>>

\* The receipts' documents change at the accounting API.
Edit ==
    /\ ver < MaxVer
    /\ ver' = ver + 1
    /\ UNCHANGED <<parsevars, httpvars, workvars, SessionLocal, now, tokvars, callvars, cached_receipts, INMEM_CACHE,
                   shape, fetchvars>>

EmptyMap == [x \in {} |-> 0]

\* No cache operation is under way.
InitFetchVars ==
    /\ rid = [t \in Threads |-> NoKey]
    /\ parsed = [t \in Threads |-> <<>>]
    /\ canon = [t \in Threads |-> NoKey]
    /\ existing = [t \in Threads |-> FALSE]
    /\ wres = [t \in Threads |-> "none"]
    /\ cret = [t \in Threads |-> <<>>]
    /\ dbreads = [t \in Threads |-> 0]

InitCacheVars ==
    /\ cached_receipts = {}
    /\ INMEM_CACHE = EmptyMap
    /\ ver = 1
    /\ InitFetchVars

\* The token set a /callback stored at time 0, the n-th the endpoint issued: it has a
\* refresh token and 120 seconds to live.
ConnectedSet(n) == [access_token |-> n, refresh_token |-> n, expires_at |-> 120]

InitConnected(n) ==
    /\ issued = n
    /\ last_saved = <<ConnectedSet(n)>>
    /\ IF SessionLocal
       THEN /\ tokens_table = {[id |-> 1, access_token |-> n, refresh_token |-> n,
                                expires_at |-> ConnectedSet(n).expires_at]}
            /\ token_seq = 1
            /\ token_file = <<>>
       ELSE /\ tokens_table = {}
            /\ token_seq = 0
            /\ token_file = <<ConnectedSet(n)>>

\* No static key is configured; no request has come.
InitHttp ==
    /\ RECEIPTS_API_KEY = NoApiKey
    /\ request = NoRequest
    /\ response = NoResponse

InitCallVars ==
    /\ pc = [t \in Threads |-> "idle"]
    /\ op = [t \in Threads |-> "refresh"]
    /\ rstat = [t \in Threads |-> "none"]
    /\ tokens = [t \in Threads |-> <<>>]
    /\ tnow = [t \in Threads |-> 0]
    /\ status = [t \in Threads |-> 0]
    /\ new_tokens = [t \in Threads |-> NoNewTokens]
    /\ ret = [t \in Threads |-> 0]
    /\ posts = [t \in Threads |-> 0]
    /\ writes = [t \in Threads |-> 0]
    /\ snap = [t \in Threads |-> {}]
    /\ WORKER_Q = <<>>
    /\ wloop = "get"
    /\ nEnq = 0
    /\ errs = 0

\* parse_salesreceipt is not being called.
InitParseVars ==
    /\ document = JNull
    /\ record = <<>>
    /\ outcome = "none"

InitCalls == InitCallVars /\ InitParseVars

InitTokens ==
    /\ tokens_table = {}
    /\ token_seq = 0
    /\ token_file = <<>>
    /\ issued = 0
    /\ last_saved = <<>>

InitToken ==
    /\ SessionLocal \in BOOLEAN
    /\ now = 0
    /\ InitTokens
    /\ InitCalls
    /\ InitHttp
    /\ InitCacheVars
    /\ shape = [r \in Receipts |-> [doc |-> TRUE, id |-> TRUE]]

\* The service after an OAuth connect, one tick before the end of the clock, its
\* caches empty; the token endpoint issues no further token set (a refresh exchange is
\* refused or fails); the first receipt's document carries any combination of
\* DocNumber and Id.
InitCache ==
    /\ SessionLocal \in BOOLEAN
    /\ now = MaxTime - 30
    /\ InitConnected(MaxIssued)
    /\ InitCalls
    /\ InitHttp
    /\ InitCacheVars
    /\ shape \in {f \in [Receipts -> [doc : BOOLEAN, id : BOOLEAN]] :
                    f["r2"] = [doc |-> TRUE, id |-> TRUE]}

\* The steps of fetch_and_cache_receipt, the calls it makes included.
FetchStep(t) ==
    \/ call_fetch_and_cache_receipt(t)
    \/ refresh_access_token_load(t)
    \/ refresh_access_token_post(t)
    \/ qbo_get_salesreceipt_by_id(t)
    \/ cache_receipt_in_db_select(t)
    \/ cache_receipt_in_db_write(t)
    \/ fetch_and_cache_receipt_mem(t)

GetStep(t) ==
    \/ get_cached_receipt_db_mem(t)
    \/ get_cached_receipt_db_select(t)

\* One caller alone: its cache operations are sequential.
NextCacheSeq ==
    \/ Tick
    \/ Expire
    \/ Edit
    \/ \E t \in RequestThreads : FetchStep(t) \/ GetStep(t)

SpecCacheSeq == InitCache /\ [][NextCacheSeq]_vars

\* Both receipts' documents carry DocNumber and Id.
InitRace ==
    /\ InitCache
    /\ shape = [r \in Receipts |-> [doc |-> TRUE, id |-> TRUE]]

\* The request thread and the background consumer both run fetch_and_cache_receipt.
NextCache ==
    \/ Tick
    \/ Edit
    \/ \E t \in Threads : FetchStep(t)

SpecCache == InitRace /\ [][NextCache]_vars

\* The steps of fetch_and_cache_receipt while the stored access token is fresh.
TiersStep(t) ==
    \/ call_fetch_and_cache_receipt(t)
    \/ refresh_access_token_load(t)
    \/ qbo_get_salesreceipt_by_id(t)
    \/ cache_receipt_in_db_select(t)
    \/ cache_receipt_in_db_write(t)
    \/ fetch_and_cache_receipt_mem(t)

\* The request thread and the background consumer both run fetch_and_cache_receipt
\* while the documents change, and the request thread also get_cached_receipt_db.
NextTiers ==
    \/ Edit
    \/ \E t \in Threads : TiersStep(t)
    \/ \E t \in RequestThreads : GetStep(t)

SpecTiers == InitRace /\ [][NextTiers]_vars

NextToken ==
    \/ Tick
    \/ \E t \in Threads :
        \/ call_refresh_access_token(t)
        \/ refresh_access_token_load(t)
        \/ refresh_access_token_post(t)
        \/ save_tokens_file(t)
        \/ save_tokens_db_delete(t)
        \/ save_tokens_db_commit(t)
        \/ callback(t)

SpecToken == InitToken /\ [][NextToken]_vars

\* ------------------------------------------------------------- worker_loop

\* What WORKER_Q.get() may hand to worker_loop: a falsy task (None, {}), a task that
\* is no dict, and dicts with type refresh_token, fetch_and_cache (with a receipt_id
\* or without) or another type.
Task(form, type, id) == [form |-> form, type |-> type, receipt_id |-> id]
RefreshTask_Unknown == Task("dict", "refresh", NoKey)
RefreshTask == Task("dict", "refresh_token", NoKey)
FetchTasks == {Task("dict", "fetch_and_cache", id) : id \in {IdKey("r1"), DocKey("r1"), NoKey}}
Tasks ==
    {Task("falsy", "", NoKey), Task("nondict", "", NoKey), Task("dict", "other", NoKey),
     RefreshTask} \cup FetchTasks

\* A loop that an exception ends.
LoopAfterError_Stop == "dead"

\* Lines 229-234: the exception is logged; the loop goes on with WORKER_Q.get().
LoopAfterError == "get"

Caught == IF errs < MaxErrs THEN errs + 1 ELSE errs

\* A put on a queue that hands out the newest task first (queue.LifoQueue).
WORKER_Q_put_Front ==
    /\ nEnq < MaxTasks
    /\ \E task \in Tasks \ {RefreshTask} : WORKER_Q' = <<task>> \o WORKER_Q
    /\ nEnq' = nEnq + 1
    /\ UNCHANGED <<parsevars, httpvars, SessionLocal, now, tokvars, callvars, cachevars, fetchvars, wloop, errs>>

\* WORKER_Q.put(task), lines 623 and 699, and any other producer.
WORKER_Q_put ==
    /\ nEnq < MaxTasks
    /\ \E task \in Tasks \ {RefreshTask} : WORKER_Q' = Append(WORKER_Q, task)
    /\ nEnq' = nEnq + 1
    /\ UNCHANGED <<parsevars, httpvars, SessionLocal, now, tokvars, callvars, cachevars, fetchvars, wloop, errs>>

\* periodic_token_refresher, line 245.
periodic_token_refresher ==
    /\ nEnq < MaxTasks
    /\ WORKER_Q' = Append(WORKER_Q, RefreshTask)
    /\ nEnq' = nEnq + 1
    /\ UNCHANGED <<parsevars, httpvars, SessionLocal, now, tokvars, callvars, cachevars, fetchvars, wloop, errs>>

\* worker_loop, lines 216-226: the task is taken and dispatched. A falsy task: sleep,
\* continue. A task with no get(): the exception reaches line 232. refresh_token and
\* fetch_and_cache with a receipt_id: the call starts. Anything else: task_done().
worker_loop_get(t) ==
    /\ t \notin RequestThreads
    /\ wloop = "get"
    /\ WORKER_Q # <<>>
    /\ WORKER_Q' = Tail(WORKER_Q)
    /\ LET task == Head(WORKER_Q) IN
        IF task.form = "dict" /\ task.type = "refresh_token"
        THEN /\ Enter(t, "refresh", "load")
             /\ new_tokens' = [new_tokens EXCEPT ![t] = NoNewTokens]
             /\ wloop' = "task"
             /\ UNCHANGED <<fetchvars, errs>>
        ELSE IF task.form = "dict" /\ task.type = "fetch_and_cache" /\ task.receipt_id # NoKey
        THEN /\ EnterCache(t, task.receipt_id)
             /\ Enter(t, "fetch", "load")
             /\ new_tokens' = [new_tokens EXCEPT ![t] = NoNewTokens]
             /\ cret' = [cret EXCEPT ![t] = <<>>]
             /\ wloop' = "task"
             /\ UNCHANGED errs
        ELSE IF task.form = "nondict"
        THEN /\ wloop' = LoopAfterError
             /\ errs' = Caught
             /\ UNCHANGED <<callvars, fetchvars>>
        ELSE UNCHANGED <<callvars, fetchvars, wloop, errs>>
    /\ UNCHANGED <<parsevars, httpvars, SessionLocal, now, tokvars, cachevars, nEnq>>

\* Line 231: the call has returned; task_done().
worker_loop_task_done(t) ==
    /\ t \notin RequestThreads
    /\ wloop = "task"
    /\ pc[t] = "done"
    /\ wloop' = "get"
    /\ UNCHANGED <<parsevars, httpvars, SessionLocal, now, tokvars, callvars, cachevars, fetchvars,
                   WORKER_Q, nEnq, errs>>

\* Lines 229-230 (fetch_and_cache_receipt raised, then task_done()) and lines 232-234
\* (refresh_access_token raised).
worker_loop_except(t) ==
    /\ t \notin RequestThreads
    /\ wloop = "task"
    /\ pc[t] = "raised"
    /\ wloop' = LoopAfterError
    /\ errs' = Caught
    /\ UNCHANGED <<parsevars, httpvars, SessionLocal, now, tokvars, callvars, cachevars, fetchvars,
                   WORKER_Q, nEnq>>

\* The steps of the consumer thread.
WorkerStep(t) ==
    \/ worker_loop_get(t)
    \/ worker_loop_task_done(t)
    \/ worker_loop_except(t)
    \/ refresh_access_token_load(t)
    \/ refresh_access_token_post(t)
    \/ save_tokens_file(t)
    \/ save_tokens_db_delete(t)
    \/ save_tokens_db_commit(t)
    \/ qbo_get_salesreceipt_by_id(t)
    \/ cache_receipt_in_db_select(t)
    \/ cache_receipt_in_db_write(t)
    \/ fetch_and_cache_receipt_mem(t)

\* The service after an OAuth connect, one tick before the end of the clock; the token
\* endpoint has one more token set to issue.
InitService ==
    /\ SessionLocal \in BOOLEAN
    /\ now = MaxTime - 30
    /\ InitConnected(MaxIssued - 1)
    /\ InitCalls
    /\ InitCacheVars
    /\ shape = [r \in Receipts |-> [doc |-> TRUE, id |-> TRUE]]

InitWorker == InitService /\ InitHttp

NextWorker ==
    \/ Tick
    \/ WORKER_Q_put
    \/ periodic_token_refresher
    \/ \E t \in Threads \ RequestThreads : WorkerStep(t)

SpecWorker == InitWorker /\ [][NextWorker]_vars

\* The consumer thread is scheduled, and each call it makes returns or raises.
SpecWorkerFair == SpecWorker /\ WF_vars(\E t \in Threads \ RequestThreads : WorkerStep(t))

\* --------------------------------------------------------------- qbo_webhook

\* k.lower() for the keys of the payloads below.
Lower_Identity(key) == key

Lower(key) ==
    CASE key = "entityId" -> "entityid"
      [] key = "ID" -> "id"
      [] key = "Entity" -> "entity"
      [] OTHER -> key

\* isinstance(v, (str, int)): bool is a subclass of int.
IsStrOrInt(v) == v.k \in {"str", "int", "bool"}

\* find_ids, lines 687-696: the set ids after find_ids(obj).
RECURSIVE find_ids(_)
find_ids(obj) ==
    IF obj.k = "obj"
    THEN UNION {IF Lower(obj.keys[i]) \in {"entityid", "id", "entity"} /\ IsStrOrInt(obj.kids[i])
                THEN {obj.kids[i].v}
                ELSE find_ids(obj.kids[i]) : i \in DOMAIN obj.keys}
    ELSE IF obj.k = "arr"
    THEN UNION {find_ids(obj.kids[i]) : i \in DOMAIN obj.kids}
    ELSE {}

\* not payload (line 682): None, and the JSON values that are falsy.
Falsy(v) ==
    \/ v.k \in {"unparsable", "null"}
    \/ v.k \in {"str", "int"} /\ v.v = NoKey
    \/ v.k = "obj" /\ v.keys = <<>>
    \/ v.k = "arr" /\ v.kids = <<>>

\* The orders in which the set ids may be iterated (line 698).
Orders(ids) ==
    {o \in [1..Cardinality(ids) -> ids] : \A i, j \in DOMAIN o : i # j => o[i] # o[j]}

\* The payloads: no JSON, scalars, and objects and arrays of up to two members, nested
\* up to two deep.
Scalars == {JStr(IdKey("r1")), JInt(IdKey("r1")), JStr(IdKey("r2")), JStr(NoKey), JNull, JTrue}
PayloadKeys == {"entityId", "ID", "Entity", "name"}
Containers(kids) ==
    {JObj(<<>>, <<>>), JArr(<<>>)}
    \cup {JObj(<<k>>, <<v>>) : k \in PayloadKeys, v \in kids}
    \cup {JArr(<<v>>) : v \in kids}
    \cup {JArr(<<v, w>>) : v \in kids, w \in Scalars}
    \cup {JObj(<<k, "data">>, <<v, w>>) : k \in PayloadKeys, v \in Scalars, w \in kids}
Payloads == {Unparsable} \cup Scalars \cup Containers(Scalars \cup Containers(Scalars))

\* qbo_webhook, lines 677-700, handles the request.
qbo_webhook(t) ==
    /\ t \in RequestThreads
    /\ pc[t] \in Rest
    /\ request.endpoint = "webhook"
    /\ response = NoResponse
    /\ IF Falsy(request.body)
       THEN /\ response' = Response(400, "invalid json", 0, {}, <<>>)
            /\ UNCHANGED <<WORKER_Q, nEnq>>
       ELSE LET ids == find_ids(request.body) IN
            /\ nEnq + Cardinality(ids) <= MaxTasks
            /\ \E o \in Orders(ids) :
                 WORKER_Q' = WORKER_Q \o [i \in DOMAIN o |-> Task("dict", "fetch_and_cache", o[i])]
            /\ nEnq' = nEnq + Cardinality(ids)
            /\ response' = Response(200, "queued", 0, ids, <<>>)
    /\ UNCHANGED <<parsevars, SessionLocal, now, tokvars, callvars, cachevars, fetchvars, wloop, errs,
                   RECEIPTS_API_KEY, request>>

\* A POST /webhook/qbo has come, with no key.
InitWebhook ==
    /\ InitService
    /\ RECEIPTS_API_KEY = NoApiKey
    /\ request \in {Request("webhook", NoApiKey, NoApiKey, NoKey, body) : body \in Payloads}
    /\ response = NoResponse

NextWebhook == \E t \in RequestThreads : qbo_webhook(t)

SpecWebhook == InitWebhook /\ [][NextWebhook]_vars

\* ------------------------------------------------- periodic_token_refresher

\* periodic_token_refresher, lines 243-248, run without end: put, sleep, put. The queue
\* is unbounded in the code; here the timer waits while MaxQueue tasks are queued, and
\* nEnq counts its puts up to MaxTasks.
periodic_token_refresher_loop ==
    /\ Len(WORKER_Q) < MaxQueue
    /\ WORKER_Q' = Append(WORKER_Q, RefreshTask)
    /\ nEnq' = IF nEnq < MaxTasks THEN nEnq + 1 ELSE nEnq
    /\ UNCHANGED <<parsevars, httpvars, SessionLocal, now, tokvars, callvars, cachevars, fetchvars, wloop, errs>>

\* The answers of a token endpoint whose token sets outlive the margin of line 190.
LastingAnswers == {resp \in TokenResponses : resp.status = 200 => ExpiresIn(resp) > Margin}

\* The consumer thread with that endpoint and a durable store whose writes commit.
HealStep(t) ==
    \/ worker_loop_get(t)
    \/ worker_loop_task_done(t)
    \/ worker_loop_except(t)
    \/ refresh_access_token_load(t)
    \/ refresh_access_token_raise(t)
    \/ \E resp \in LastingAnswers : refresh_access_token_answer(t, resp)
    \/ save_tokens_file(t)
    \/ save_tokens_db_delete(t)
    \/ save_tokens_db_insert(t)
    \/ qbo_get_salesreceipt_by_id(t)
    \/ cache_receipt_in_db_select(t)
    \/ cache_receipt_in_db_write(t)
    \/ fetch_and_cache_receipt_mem(t)

NextHeal ==
    \/ Tick
    \/ WORKER_Q_put
    \/ periodic_token_refresher_loop
    \/ \E t \in Threads \ RequestThreads : HealStep(t)

SpecHeal == InitWorker /\ [][NextHeal]_vars

\* load_tokens reads the stored token set.
LoadSucceeds(t) == refresh_access_token_load(t) /\ tokens'[t] # <<>>

\* The token endpoint answers a refresh exchange with success.
AnswerSucceeds(t) ==
    \E resp \in LastingAnswers : resp.status = 200 /\ refresh_access_token_answer(t, resp)

\* Both threads are scheduled; each call of the consumer returns or raises; the token
\* store is read, and the token endpoint answers with success, again and again when
\* asked again and again.
SpecHealFair ==
    /\ SpecHeal
    /\ WF_vars(\E t \in Threads \ RequestThreads : HealStep(t))
    /\ SF_vars(periodic_token_refresher_loop)
    /\ SF_vars(\E t \in Threads \ RequestThreads : LoadSucceeds(t))
    /\ SF_vars(\E t \in Threads \ RequestThreads : AnswerSucceeds(t))

\* ------------------------------------------- callers of refresh_access_token

\* A request thread calls fetch_and_cache_receipt once: qbo_get_salesreceipt_by_id calls
\* refresh_access_token (line 268), which may exchange the refresh token and save.
RequestStep(t) ==
    \/ pc[t] = "idle" /\ fetch_and_cache_receipt_call(t, IdKey("r1")) /\ UNCHANGED httpvars
    \/ refresh_access_token_load(t)
    \/ refresh_access_token_post(t)
    \/ qbo_get_salesreceipt_by_id(t)
    \/ cache_receipt_in_db_select(t)
    \/ cache_receipt_in_db_write(t)
    \/ fetch_and_cache_receipt_mem(t)
    \/ save_tokens_file(t)
    \/ save_tokens_db_delete(t)
    \/ save_tokens_db_commit(t)

\* The consumer with refresh_token tasks only.
RefresherStep(t) ==
    \/ worker_loop_get(t)
    \/ worker_loop_task_done(t)
    \/ worker_loop_except(t)
    \/ refresh_access_token_load(t)
    \/ refresh_access_token_post(t)
    \/ save_tokens_file(t)
    \/ save_tokens_db_delete(t)
    \/ save_tokens_db_commit(t)

\* The service after an OAuth connect; the token endpoint has two more token sets to
\* issue.
InitWriters ==
    /\ SessionLocal \in BOOLEAN
    /\ now = MaxTime - 30
    /\ InitConnected(MaxIssued - 2)
    /\ InitCalls
    /\ InitCacheVars
    /\ shape = [r \in Receipts |-> [doc |-> TRUE, id |-> TRUE]]
    /\ InitHttp

\* A request thread looks receipts up while the timer has the consumer refresh.
NextWriters ==
    \/ Tick
    \/ periodic_token_refresher
    \/ \E t \in Threads \ RequestThreads : RefresherStep(t)
    \/ \E t \in RequestThreads : RequestStep(t)

SpecWriters == InitWriters /\ [][NextWriters]_vars

\* ------------------------------------------------------- parse_salesreceipt

\* JSON values of a SalesReceipt document: a string is its words ("\n" ends a line, " "
\* is blank space), a number is an integer; the ISO text of a time is a value of its own.
JText(words) == [Json("text", NoKey, <<>>, <<>>) EXCEPT !.words = words]
JNum(n) == [Json("num", NoKey, <<>>, <<>>) EXCEPT !.n = n]
JTime(t) == [Json("time", NoKey, <<>>, <<>>) EXCEPT !.n = t]
EmptyText == JText(<<>>)

\* Python's truth value of a JSON value.
Truthy(x) ==
    CASE x.k = "null" -> FALSE
      [] x.k = "text" -> x.words # <<>>
      [] x.k = "num" -> x.n # 0
      [] x.k = "obj" -> x.keys # <<>>
      [] x.k = "arr" -> x.kids # <<>>
      [] OTHER -> TRUE

\* d.get(key, default) and d.get(key) of a dict d; a or b.
GetOr(d, key, default) ==
    IF \E i \in DOMAIN d.keys : d.keys[i] = key
    THEN d.kids[CHOOSE i \in DOMAIN d.keys : d.keys[i] = key]
    ELSE default
Get(d, key) == GetOr(d, key, JNull)
Or(a, b) == IF Truthy(a) THEN a ELSE b

\* (x or {}).get(...) and x.get(...) raise AttributeError unless x is a dict.
NoDict(x) == Truthy(x) /\ x.k # "obj"
OrEmpty(x) == Or(x, JObj(<<>>, <<>>))

\* for e in (x or []): the elements, when x is a list. Iterating a number or a boolean
\* raises TypeError; a non-empty string or dict yields strings, whose .get raises.
Elements(x) == IF Truthy(x) /\ x.k = "arr" THEN x.kids ELSE <<>>
NoList(x) == Truthy(x) /\ x.k # "arr"

\* str.lower() and str.title() of a word.
LowerWord(w) ==
    CASE w = "Served" -> "served"
      [] w = "By" -> "by"
      [] w = "Ann" -> "ann"
      [] w = "Branch" -> "branch"
      [] OTHER -> w
TitleWord(w) ==
    CASE w = "served" -> "Served"
      [] w = "by" -> "By"
      [] w = "ann" -> "Ann"
      [] w = "branch" -> "Branch"
      [] OTHER -> w
MapWords(F(_), ws) == [i \in DOMAIN ws |-> F(ws[i])]

\* str.strip(): leading and trailing white space goes.
Blank == {" ", "\n"}
RECURSIVE Strip(_)
Strip(ws) ==
    IF ws = <<>> THEN ws
    ELSE IF Head(ws) \in Blank THEN Strip(Tail(ws))
    ELSE IF ws[Len(ws)] \in Blank THEN Strip(SubSeq(ws, 1, Len(ws) - 1))
    ELSE ws

\* 'served by' in text.lower()
HasServedBy(ws) ==
    \E i \in 1..(Len(ws) - 1) : LowerWord(ws[i]) = "served" /\ LowerWord(ws[i + 1]) = "by"

\* text.splitlines()[0] and the rest of the text after it.
RECURSIVE FirstLine(_)
FirstLine(ws) ==
    IF ws = <<>> \/ Head(ws) = "\n" THEN <<>> ELSE <<Head(ws)>> \o FirstLine(Tail(ws))
RECURSIVE AfterFirstLine(_)
AfterFirstLine(ws) ==
    IF ws = <<>> THEN <<>>
    ELSE IF Head(ws) = "\n" THEN Tail(ws)
    ELSE AfterFirstLine(Tail(ws))

\* line.split(':', 1)[1]
RECURSIVE AfterColon(_)
AfterColon(ws) ==
    IF Head(ws) = ":" THEN Tail(ws) ELSE AfterColon(Tail(ws))

\* line.lower().replace('served by', '')
RECURSIVE WithoutServedBy(_)
WithoutServedBy(ws) ==
    IF ws = <<>> THEN <<>>
    ELSE IF Len(ws) >= 2 /\ ws[1] = "served" /\ ws[2] = "by" THEN WithoutServedBy(Tail(Tail(ws)))
    ELSE <<Head(ws)>> \o WithoutServedBy(Tail(ws))

\* Lines 316-322: the first line that has 'served by': what follows its colon, or the
\* line without the phrase, in title case.
RECURSIVE ServedByLine(_)
ServedByLine(ws) ==
    LET line == FirstLine(ws) IN
    IF HasServedBy(line)
    THEN IF \E i \in DOMAIN line : line[i] = ":"
         THEN Strip(AfterColon(line))
         ELSE MapWords(TitleWord, Strip(WithoutServedBy(MapWords(LowerWord, line))))
    ELSE ServedByLine(AfterFirstLine(ws))

\* Lines 312-326: the server a memo names.
FromMemo(memo) ==
    IF memo = <<>> THEN <<>>
    ELSE IF HasServedBy(memo) THEN ServedByLine(memo)
    ELSE memo

\* Lines 303-308: the reference fields in their order; a field that is no dict leaves
\* served_by as it is.
RefFields == <<"LocationRef", "Location", "ClassRef", "DepartmentRef">>
RECURSIVE FromRefs(_, _)
FromRefs(s, i) ==
    IF i > Len(RefFields) THEN EmptyText
    ELSE LET ref == Get(s, RefFields[i])
             served_by == IF ref.k = "obj"
                          THEN Or(Get(ref, "name"), Or(Get(ref, "value"), EmptyText))
                          ELSE EmptyText
         IN  IF Truthy(served_by) THEN served_by ELSE FromRefs(s, i + 1)

\* Line 311: (s.get('CustomerMemo') or {}).get('value', '')
MemoValue(s) == GetOr(OrEmpty(Get(s, "CustomerMemo")), "value", EmptyText)

\* Lines 330-331: the custom field's name, lower-cased, has 'served', 'location' or
\* 'branch' in it.
ServerField(cf) ==
    \E i \in DOMAIN Or(Get(cf, "Name"), EmptyText).words :
        LowerWord(Or(Get(cf, "Name"), EmptyText).words[i]) \in {"served", "location", "branch"}

\* Lines 329-333: the first such custom field gives the value, empty or not.
RECURSIVE FromCustomFields(_)
FromCustomFields(cfs) ==
    IF cfs = <<>> THEN EmptyText
    ELSE IF ServerField(Head(cfs))
         THEN Or(Get(Head(cfs), "StringValue"), Or(Get(Head(cfs), "Value"), EmptyText))
         ELSE FromCustomFields(Tail(cfs))

\* Lines 329-331 raise: an element that is no dict, or a name that is no string, before
\* the first field that gives the value.
RECURSIVE CustomFieldsRaise(_)
CustomFieldsRaise(cfs) ==
    /\ cfs # <<>>
    /\ \/ Head(cfs).k # "obj"
       \/ Or(Get(Head(cfs), "Name"), EmptyText).k # "text"
       \/ ~ServerField(Head(cfs)) /\ CustomFieldsRaise(Tail(cfs))

\* Lines 301-333 with the memo looked at before the reference fields.
ServedBy_MemoFirst(s) ==
    LET fromRefs == FromRefs(s, 1)
        fromMemo == JText(FromMemo(Strip(MemoValue(s).words)))
    IN  IF Truthy(fromMemo) THEN fromMemo
        ELSE IF Truthy(fromRefs) THEN fromRefs
        ELSE FromCustomFields(Elements(Get(s, "CustomField")))

\* Lines 301-333.
ServedBy(s) ==
    LET fromRefs == FromRefs(s, 1)
        fromMemo == JText(FromMemo(Strip(MemoValue(s).words)))
    IN  IF Truthy(fromRefs) THEN fromRefs
        ELSE IF Truthy(fromMemo) THEN fromMemo
        ELSE FromCustomFields(Elements(Get(s, "CustomField")))

ServedByRaises(s) ==
    /\ ~Truthy(FromRefs(s, 1))
    /\ \/ NoDict(Get(s, "CustomerMemo"))
       \/ MemoValue(s).k # "text"
       \/ /\ ~Truthy(JText(FromMemo(Strip(MemoValue(s).words))))
          /\ \/ NoList(Get(s, "CustomField"))
             \/ CustomFieldsRaise(Elements(Get(s, "CustomField")))

\* Lines 293-299: the first of BillAddr.Line1, ShipAddr.Line1, BillEmail.Address.
ContactFields == <<<<"BillAddr", "Line1">>, <<"ShipAddr", "Line1">>, <<"BillEmail", "Address">>>>
RECURSIVE Contact(_, _)
Contact(s, i) ==
    IF i > Len(ContactFields) THEN EmptyText
    ELSE LET x == Get(s, ContactFields[i][1]) IN
         IF Truthy(x) /\ Truthy(Get(x, ContactFields[i][2]))
         THEN Get(x, ContactFields[i][2])
         ELSE Contact(s, i + 1)
RECURSIVE ContactRaises(_, _)
ContactRaises(s, i) ==
    /\ i <= Len(ContactFields)
    /\ LET x == Get(s, ContactFields[i][1]) IN
       \/ NoDict(x)
       \/ ~(Truthy(x) /\ Truthy(Get(x, ContactFields[i][2]))) /\ ContactRaises(s, i + 1)

\* x.get(key).get(sub) if isinstance(x.get(key), dict) else None (lines 344, 360, 367).
SubOrNone(x, key, sub) == IF Get(x, key).k = "obj" THEN Get(Get(x, key), sub) ELSE JNull

\* Lines 338-352: one line item.
Item(line) ==
    LET detail == OrEmpty(Get(line, "SalesItemLineDetail")) IN
    [name |-> Or(Get(OrEmpty(Get(detail, "ItemRef")), "name"), EmptyText),
     description |-> Or(Get(line, "Description"), EmptyText),
     quantity |-> Or(Get(detail, "Qty"), Or(Get(detail, "Quantity"), JNum(1))),
     unit_price |-> Or(Get(detail, "UnitPrice"), JNum(0)),
     amount |-> Or(Get(line, "Amount"), JNum(0)),
     tax_code |-> SubOrNone(detail, "TaxCodeRef", "value")]
ItemRaises(line) ==
    \/ line.k # "obj"
    \/ NoDict(Get(line, "SalesItemLineDetail"))
    \/ NoDict(Get(OrEmpty(Get(line, "SalesItemLineDetail")), "ItemRef"))

\* Lines 357-361: one tax line.
Tax(tline) ==
    [amount |-> Or(Get(tline, "Amount"), JNum(0)),
     detail_type |-> Get(tline, "DetailType"),
     tax_rate_ref |-> SubOrNone(tline, "TaxLineDetail", "TaxRateRef")]

\* Lines 365-368: one payment.
PaymentOf(p) ==
    [amount |-> Or(Get(p, "Amount"), JNum(0)),
     method |-> SubOrNone(p, "PaymentMethodRef", "name")]

\* A loop over s.get(field, []) or [] raises.
LoopRaises(s, field, Raises(_)) ==
    \/ NoList(Get(s, field))
    \/ \E i \in DOMAIN Elements(Get(s, field)) : Raises(Elements(Get(s, field))[i])
NotAnObject(x) == x.k # "obj"

\* parse_salesreceipt(s) raises, for a JSON object s.
parse_salesreceipt_raises(s) ==
    \/ NoDict(Get(s, "MetaData"))
    \/ NoDict(Get(s, "CustomerRef"))
    \/ ContactRaises(s, 1)
    \/ ServedByRaises(s)
    \/ LoopRaises(s, "Line", ItemRaises)
    \/ LoopRaises(s, "TaxLine", NotAnObject)
    \/ LoopRaises(s, "Payment", NotAnObject)

\* parse_salesreceipt(s), lines 281-383, field by field, when it returns.
parse_salesreceipt_fields(s) ==
    [receiptNumber |-> Or(Get(s, "DocNumber"), Or(Get(s, "Id"), JStr(SynKey(EpochMillis)))),
     createdAt |-> Or(Get(OrEmpty(Get(s, "MetaData")), "CreateTime"),
                      Or(Get(s, "TxnDate"), JTime(now))),
     customerName |-> Or(Get(OrEmpty(Get(s, "CustomerRef")), "name"), EmptyText),
     customerContact |-> Contact(s, 1),
     servedBy |-> ServedBy(s),
     items |-> [i \in DOMAIN Elements(Get(s, "Line")) |-> Item(Elements(Get(s, "Line"))[i])],
     taxes |-> [i \in DOMAIN Elements(Get(s, "TaxLine")) |-> Tax(Elements(Get(s, "TaxLine"))[i])],
     payments |-> [i \in DOMAIN Elements(Get(s, "Payment")) |->
                      PaymentOf(Elements(Get(s, "Payment"))[i])],
     total |-> Or(Get(s, "TotalAmt"), Or(Get(s, "Total"), JNum(0)))]

\* A value that stands for a member the document does not have.
Absent == Json("absent", NoKey, <<>>, <<>>)

\* The JSON object with the given members, those that are Absent left out.
Object(members) ==
    LET present == SelectSeq(members, LAMBDA m : m[2] # Absent) IN
    JObj([i \in DOMAIN present |-> present[i][1]], [i \in DOMAIN present |-> present[i][2]])
Named(words) == Object(<<<<"name", JText(words)>>>>)

\* Documents that differ in where the server is named: the reference fields, the memo,
\* the custom fields.
LocationRefs ==
    {Absent, Named(<<"Kiosk">>), Object(<<<<"value", JText(<<"L1">>)>>>>),
     Object(<<<<"name", EmptyText>>, <<"value", JText(<<"L1">>)>>>>), JText(<<"Kiosk">>)}
Memos ==
    {Absent} \cup
    {Object(<<<<"value", JText(ws)>>>>) :
        ws \in {<<"Served", "By", ":", "Ann">>, <<"served", "by", "ann">>, <<"Thanks">>,
                <<"Served", "by", ":">>, <<" ">>,
                <<"Thanks", "\n", "Served", "By", ":", "Bob", " ">>}}
CustomFields ==
    {Absent,
     JArr(<<Object(<<<<"Name", JText(<<"Branch">>)>>, <<"StringValue", JText(<<"Main">>)>>>>)>>),
     JArr(<<Object(<<<<"Name", JText(<<"Color">>)>>, <<"StringValue", JText(<<"Red">>)>>>>),
            Object(<<<<"Name", JText(<<"served">>)>>, <<"Value", JText(<<"Cy">>)>>>>)>>),
     JArr(<<Object(<<<<"Name", JText(<<"location">>)>>>>),
            Object(<<<<"Name", JText(<<"Branch">>)>>, <<"StringValue", JText(<<"Main">>)>>>>)>>)}
ServerDocuments ==
    {Object(<<<<"DocNumber", JText(<<"1001">>)>>, <<"LocationRef", loc>>, <<"ClassRef", cls>>,
              <<"DepartmentRef", dep>>, <<"CustomerMemo", memo>>, <<"CustomField", cfs>>>>) :
        loc \in LocationRefs, cls \in {Absent, Named(<<"Retail">>)},
        dep \in {Absent, Named(<<"Front">>)}, memo \in Memos, cfs \in CustomFields}

\* Documents with one known member of any JSON type.
KnownMembers ==
    {"DocNumber", "Id", "MetaData", "TxnDate", "CustomerRef", "BillAddr", "ShipAddr",
     "BillEmail", "LocationRef", "CustomerMemo", "CustomField", "Line", "TaxLine", "Payment",
     "TotalAmt"}
AnyValues ==
    {JNull, JTrue, EmptyText, JText(<<"x">>), JNum(0), JNum(5), JArr(<<>>), JArr(<<JNull>>),
     JArr(<<JText(<<"x">>)>>), JArr(<<JObj(<<>>, <<>>)>>), JObj(<<>>, <<>>),
     Object(<<<<"value", JNull>>>>), Object(<<<<"value", JText(<<"x">>)>>>>),
     Object(<<<<"Line1", JNum(5)>>>>), Named(<<"x">>)}
TypedDocuments ==
    {JObj(<<>>, <<>>)} \cup {Object(<<<<m, v>>>>) : m \in KnownMembers, v \in AnyValues}

\* Documents whose lines, tax lines and payments have all, some or none of their
\* members.
Lines ==
    {JArr(<<JObj(<<>>, <<>>)>>),
     JArr(<<Object(<<<<"SalesItemLineDetail", Object(<<<<"TaxCodeRef", JObj(<<>>, <<>>)>>>>)>>>>)>>),
     JArr(<<Object(<<<<"Amount", JNum(6)>>, <<"Description", JText(<<"Tea">>)>>,
                     <<"SalesItemLineDetail",
                       Object(<<<<"Qty", JNum(2)>>, <<"UnitPrice", JNum(3)>>,
                                <<"ItemRef", Named(<<"Tea">>)>>,
                                <<"TaxCodeRef", Object(<<<<"value", JText(<<"TAX">>)>>>>)>>>>)>>>>)>>)}
TaxLines ==
    {Absent, JArr(<<JObj(<<>>, <<>>)>>),
     JArr(<<Object(<<<<"Amount", JNum(1)>>, <<"DetailType", JText(<<"TaxLineDetail">>)>>,
                     <<"TaxLineDetail", Object(<<<<"TaxRateRef", Object(<<<<"value", JText(<<"3">>)>>>>)>>>>)>>>>)>>)}
Payments ==
    {Absent, JArr(<<JObj(<<>>, <<>>)>>),
     JArr(<<Object(<<<<"Amount", JNum(6)>>, <<"PaymentMethodRef", Named(<<"Cash">>)>>>>)>>)}
LineDocuments ==
    {Object(<<<<"Id", JText(<<"7">>)>>, <<"Line", l>>, <<"TaxLine", t>>, <<"Payment", p>>,
              <<"TotalAmt", total>>>>) :
        l \in Lines, t \in TaxLines, p \in Payments, total \in {Absent, JNum(6)}}

Documents == ServerDocuments \cup TypedDocuments \cup LineDocuments

\* A call of parse_salesreceipt(s) with the document: it returns the record, or raises.
parse_salesreceipt_call ==
    /\ outcome = "none"
    /\ document # JNull
    /\ IF parse_salesreceipt_raises(document)
       THEN /\ outcome' = "raised"
            /\ record' = <<>>
       ELSE /\ outcome' = "returned"
            /\ record' = <<parse_salesreceipt_fields(document)>>
    /\ UNCHANGED <<document, httpvars, workvars, SessionLocal, now, tokvars, callvars,
                   cachevars, fetchvars>>

\* parse_salesreceipt is about to be called with any of the documents.
InitParse ==
    /\ SessionLocal \in BOOLEAN
    /\ now = MaxTime - 30
    /\ InitConnected(MaxIssued)
    /\ InitCallVars
    /\ InitCacheVars
    /\ shape = [r \in Receipts |-> [doc |-> TRUE, id |-> TRUE]]
    /\ InitHttp
    /\ document \in Documents
    /\ record = <<>>
    /\ outcome = "none"

NextParse == parse_salesreceipt_call

SpecParse == InitParse /\ [][NextParse]_vars

\* --------------------------------------------------------- request handlers

\* Lines 545-552: no configured key lets every request pass; otherwise the x-app-key
\* header or the api_key query parameter has to equal the key.
require_api_key(req) ==
    \/ RECEIPTS_API_KEY = NoApiKey
    \/ req.header = RECEIPTS_API_KEY
    \/ req.q = RECEIPTS_API_KEY

\* /receipt/<id>, /receipt/<id>/thermal and /receipt/<id>/pdf.
LookupEndpoints == {"receipt", "thermal", "pdf"}

\* The body of a successful lookup: the record as JSON, or rendered as text or PDF.
Rendered(endpoint, receipt) == Response(200, endpoint, 0, {}, <<receipt>>)

\* Lines 630-634, 647-649, 660-662: the gate, then the call of get_cached_receipt_db.
receipt_lookup(t) ==
    /\ request.endpoint \in LookupEndpoints
    /\ response = NoResponse
    /\ pc[t] = "idle"
    /\ IF ~require_api_key(request)
       THEN /\ response' = Response(403, "Forbidden", 0, {}, <<>>)
            /\ UNCHANGED <<parsevars, RECEIPTS_API_KEY, request, workvars, SessionLocal, now, tokvars,
                           callvars, cachevars, fetchvars>>
       ELSE /\ get_cached_receipt_db_call(t, request.id)
            /\ UNCHANGED httpvars

\* Lines 635-639, 650-651, 663-664: a cached record is the answer; otherwise
\* fetch_and_cache_receipt is called with the identifier of the request.
receipt_lookup_cached(t) ==
    /\ request.endpoint \in LookupEndpoints
    /\ response = NoResponse
    /\ op[t] = "get"
    /\ pc[t] = "done"
    /\ IF cret[t] # <<>>
       THEN /\ response' = Rendered(request.endpoint, cret[t][1])
            /\ UNCHANGED <<parsevars, RECEIPTS_API_KEY, request, workvars, SessionLocal, now, tokvars,
                           callvars, cachevars, fetchvars>>
       ELSE /\ fetch_and_cache_receipt_call(t, request.id)
            /\ UNCHANGED httpvars

\* Lines 640-642, 652-655, 665-671: no record gives 404 'Not found'; an exception that
\* left fetch_and_cache_receipt is the framework's 500.
receipt_lookup_fetched(t) ==
    /\ request.endpoint \in LookupEndpoints
    /\ response = NoResponse
    /\ op[t] = "fetch"
    /\ pc[t] \in {"done", "raised"}
    /\ response' = IF pc[t] = "raised" THEN Response(500, "Internal Server Error", 0, {}, <<>>)
                   ELSE IF cret[t] = <<>> THEN Response(404, "Not found", 0, {}, <<>>)
                   ELSE Rendered(request.endpoint, cret[t][1])
    /\ UNCHANGED <<parsevars, RECEIPTS_API_KEY, request, workvars, SessionLocal, now, tokvars,
                   callvars, cachevars, fetchvars>>

LookupStep(t) ==
    \/ receipt_lookup(t)
    \/ receipt_lookup_cached(t)
    \/ receipt_lookup_fetched(t)

\* The requests the lookup endpoints receive.
LookupRequests ==
    {Request(e, h, q, id, JNull) : e \in LookupEndpoints, h \in ApiKeys, q \in {"", "k"},
                                   id \in RequestIds}

\* A request has arrived at a connected service; the process-local cache is empty
\* or holds the second receipt from an earlier fetch whose durable write failed or had
\* no store; a static key may be configured.
InitServing(reqs, n) ==
    /\ SessionLocal \in BOOLEAN
    /\ now = MaxTime - 30
    /\ InitConnected(n)
    /\ InitCalls
    /\ InitFetchVars
    /\ shape \in {f \in [Receipts -> [doc : BOOLEAN, id : BOOLEAN]] :
                    f["r2"] = [doc |-> TRUE, id |-> TRUE]}
    /\ ver = 1
    /\ cached_receipts = {}
    /\ INMEM_CACHE \in {EmptyMap, CachePut(EmptyMap, DocKey("r2"), parse_salesreceipt(Doc("r2")))}
    /\ RECEIPTS_API_KEY \in {NoApiKey, "k"}
    /\ request \in reqs
    /\ response = NoResponse

\* A lookup request has arrived; the token endpoint issues no further token set.
InitLookup == InitServing(LookupRequests, MaxIssued)

\* The request thread serves the lookup.
NextLookup ==
    \/ Tick
    \/ LookupStep("req")
    \/ refresh_access_token_load("req")
    \/ refresh_access_token_post("req")
    \/ qbo_get_salesreceipt_by_id("req")
    \/ cache_receipt_in_db_select("req")
    \/ cache_receipt_in_db_write("req")
    \/ fetch_and_cache_receipt_mem("req")
    \/ get_cached_receipt_db_select("req")

SpecLookup == InitLookup /\ [][NextLookup]_vars

\* The client sends its request once more after the answer: lines 630-634, 647-649,
\* 660-662 again.
receipt_lookup_again(t) ==
    /\ request.endpoint \in LookupEndpoints
    /\ response # NoResponse
    /\ pc[t] \in Rest
    /\ IF ~require_api_key(request)
       THEN /\ response' = Response(403, "Forbidden", 0, {}, <<>>)
            /\ UNCHANGED <<parsevars, RECEIPTS_API_KEY, request, workvars, SessionLocal, now, tokvars,
                           callvars, cachevars, fetchvars>>
       ELSE /\ get_cached_receipt_db_call(t, request.id)
            /\ response' = NoResponse
            /\ UNCHANGED <<RECEIPTS_API_KEY, request>>

\* The request thread serves the lookup, and the same lookup again.
NextRepeat ==
    \/ NextLookup
    \/ receipt_lookup_again("req")

SpecRepeat == InitLookup /\ [][NextRepeat]_vars

\* int(request.args.get(name, default)), lines 590-591.
IntOf(arg, default) == IF arg.kind = "absent" THEN default ELSE arg.n

Max(a, b) == IF a >= b THEN a ELSE b
Min(a, b) == IF a <= b THEN a ELSE b

\* Lines 589-593: page is at least 1, per_page at most 50; a parameter that is no integer
\* puts both back to their defaults.
Paging(req) ==
    IF req.args[1].kind = "text" \/ req.args[2].kind = "text"
    THEN <<1, 20>>
    ELSE <<Max(IntOf(req.args[1], 1), 1), Min(IntOf(req.args[2], 20), 50)>>

\* Line 599: the rows ordered by updated_at, descending; rows updated at the same time
\* come in any order.
RECURSIVE Orderings(_)
Orderings(table) ==
    IF table = {} THEN {<<>>}
    ELSE UNION {{<<m>> \o rest : rest \in Orderings(table \ {m})} :
                  m \in {r \in table : \A o \in table : o.updated_at <= r.updated_at}}

\* Line 601: offset((page - 1) * per_page).limit(per_page) of the ordered rows. A negative
\* LIMIT is an error in PostgreSQL (<<>> here: no result) and no limit in SQLite.
Window(ord, page, per_page) ==
    LET offset == (page - 1) * per_page IN
    IF per_page < 0
    THEN {<<>>, <<ord>>}
    ELSE {<<SubSeq(ord, offset + 1, Min(offset + per_page, Len(ord)))>>}

\* What the query endpoint answers with status 200 to line 610: the receipts from
\* STARTPOSITION on, MAXRESULTS at most, newest first.
ApiOrder == <<"r1", "r2">>
QueryAnswer(page, per_page) ==
    LET start == (page - 1) * per_page + 1
        sales == SubSeq(ApiOrder, start, Min(start + per_page - 1, Len(ApiOrder)))
    IN  [i \in DOMAIN sales |-> Doc(sales[i])]

\* Lines 609-611: the fallback; qbo_query is called.
receipts_fallback(t) ==
    /\ Enter(t, "query", "load")
    /\ new_tokens' = [new_tokens EXCEPT ![t] = NoNewTokens]
    /\ UNCHANGED <<parsevars, httpvars, workvars, SessionLocal, now, tokvars, cachevars, fetchvars>>

\* receipts, lines 585-611: the gate, the paging parameters, the listing from the durable
\* store when there is one; with no store, or when the listing raised, the fallback.
receipts(t) ==
    /\ t \in RequestThreads
    /\ request.endpoint = "receipts"
    /\ response = NoResponse
    /\ pc[t] = "idle"
    /\ LET page == Paging(request)[1]
           per_page == Paging(request)[2]
       IN  IF ~require_api_key(request)
           THEN /\ response' = Response(403, "Forbidden", 0, {}, <<>>)
                /\ UNCHANGED <<parsevars, RECEIPTS_API_KEY, request, workvars, SessionLocal, now, tokvars,
                               callvars, cachevars, fetchvars>>
           ELSE \/ /\ SessionLocal
                   /\ \E ord \in Orderings(cached_receipts) :
                      \E items \in Window(ord, page, per_page) :
                        /\ items # <<>>
                        /\ response' = ListResponse([i \in DOMAIN items[1] |-> items[1][i].payload],
                                                    page, per_page, Cardinality(cached_receipts))
                   /\ UNCHANGED <<parsevars, RECEIPTS_API_KEY, request, workvars, SessionLocal, now,
                                  tokvars, callvars, cachevars, fetchvars>>
                \/ receipts_fallback(t)

\* qbo_query, lines 259-264, and receipts, lines 612-625: the POST of the query raises,
\* or is answered with another status than 200 (502 with that status), or with the
\* receipts: each is parsed, a fetch_and_cache task with its receipt number is put, and
\* the list is the response.
receipts_query(t) ==
    /\ pc[t] = "query"
    /\ request.endpoint = "receipts"
    /\ LET page == Paging(request)[1]
           per_page == Paging(request)[2]
           sales == QueryAnswer(page, per_page)
           parsed_list == [i \in DOMAIN sales |-> parse_salesreceipt(sales[i])]
       IN  \/ /\ pc' = [pc EXCEPT ![t] = "raised"]
              /\ status' = [status EXCEPT ![t] = 0]
              /\ UNCHANGED <<response, WORKER_Q, nEnq>>
           \/ \E code \in StatusCodes \ {200} :
              /\ pc' = [pc EXCEPT ![t] = "done"]
              /\ status' = [status EXCEPT ![t] = code]
              /\ response' = Response(502, "QuickBooks API error", code, {}, <<>>)
              /\ UNCHANGED <<WORKER_Q, nEnq>>
           \/ /\ nEnq + Len(sales) <= MaxTasks
              /\ pc' = [pc EXCEPT ![t] = "done"]
              /\ status' = [status EXCEPT ![t] = 200]
              /\ WORKER_Q' = WORKER_Q \o [i \in DOMAIN sales |->
                                Task("dict", "fetch_and_cache", parsed_list[i].receiptNumber)]
              /\ nEnq' = nEnq + Len(sales)
              /\ response' = ListResponse(parsed_list, page, per_page, Len(sales))
    /\ LeaveRefresh(t)
    /\ UNCHANGED <<parsevars, RECEIPTS_API_KEY, request, wloop, errs, SessionLocal, now, tokvars,
                   op, rstat, new_tokens, snap, cachevars, fetchvars>>

\* qbo_query, lines 257-258, and receipts, lines 612-614: with no access token the error
\* is (401, 'Not connected'); an exception that left qbo_query is the framework's 500.
receipts_failed(t) ==
    /\ request.endpoint = "receipts"
    /\ response = NoResponse
    /\ op[t] = "query"
    /\ pc[t] \in {"done", "raised"}
    /\ response' = IF pc[t] = "raised" THEN Response(500, "Internal Server Error", 0, {}, <<>>)
                   ELSE Response(502, "QuickBooks API error", 401, {}, <<>>)
    /\ UNCHANGED <<parsevars, RECEIPTS_API_KEY, request, workvars, SessionLocal, now, tokvars,
                   callvars, cachevars, fetchvars>>

\* The steps of receipts while the stored access token is fresh.
ListStep(t) ==
    \/ receipts(t)
    \/ receipts_query(t)
    \/ receipts_failed(t)
    \/ refresh_access_token_load(t)

\* Listing requests for the first pages.
ListRequests ==
    {ListRequest(h, "", page, per_page) :
        h \in {"", "k"},
        page \in {NoArg, IntArg(1), IntArg(2)},
        per_page \in {NoArg, IntArg(1), IntArg(2), TextArg}}

\* A listing request has arrived at a connected service with empty caches.
InitListing ==
    /\ InitServing(ListRequests, MaxIssued)
    /\ INMEM_CACHE = EmptyMap

\* An accounting API that answers every GET: with the document when it has a receipt of
\* that Id, with an error status when it has none.
ApiAnswersGet(t) ==
    /\ qbo_get_salesreceipt_by_id(t)
    /\ pc'[t] # "raised"
    /\ ApiAnswers(rid[t]) # {} => parsed'[t] # <<>>

\* The consumer thread while the token store can be read and the API answers.
ListingWorkerStep(t) ==
    \/ worker_loop_get(t)
    \/ worker_loop_task_done(t)
    \/ LoadSucceeds(t)
    \/ ApiAnswersGet(t)
    \/ cache_receipt_in_db_select(t)
    \/ cache_receipt_in_db_write(t)
    \/ fetch_and_cache_receipt_mem(t)

NextListing ==
    \/ \E t \in RequestThreads : ListStep(t)
    \/ \E t \in Threads \ RequestThreads : ListingWorkerStep(t)

SpecListing == InitListing /\ [][NextListing]_vars

\* Both threads are scheduled.
SpecListingFair ==
    /\ SpecListing
    /\ WF_vars(\E t \in RequestThreads : ListStep(t))
    /\ WF_vars(\E t \in Threads \ RequestThreads : ListingWorkerStep(t))

\* A durable store of n receipts cached earlier under generated numbers, each updated
\* at a time of its own.
StampOf(i) == (i * 7) % 61
StoredRow(i) ==
    LET p == [receiptNumber |-> SynKey(i), rcpt |-> "r1", ver |-> 1] IN
    [NewRow(SynKey(i), p, RawOf(p)) EXCEPT !.updated_at = StampOf(i), !.created_at = StampOf(i)]
StoredRows(n) == {StoredRow(i) : i \in 1..n}

\* Listing requests with small, large, negative and non-numeric parameters.
PagingRequests ==
    {ListRequest("", "", page, per_page) :
        page \in {NoArg, TextArg} \cup {IntArg(n) : n \in {-1, 0, 1, 2, 3}},
        per_page \in {NoArg, TextArg} \cup {IntArg(n) : n \in {-1, 0, 1, 10, 50, 51}}}

\* A listing request has arrived at a connected service whose durable store holds none,
\* a few, 25, or more than 50 receipts.
InitPaging ==
    /\ SessionLocal = TRUE
    /\ now = MaxTime - 30
    /\ InitConnected(MaxIssued)
    /\ InitCalls
    /\ InitFetchVars
    /\ shape = [r \in Receipts |-> [doc |-> TRUE, id |-> TRUE]]
    /\ ver = 1
    /\ INMEM_CACHE = EmptyMap
    /\ cached_receipts \in {StoredRows(n) : n \in {0, 3, 25, MaxRows - 1, MaxRows}}
    /\ RECEIPTS_API_KEY = NoApiKey
    /\ request \in PagingRequests
    /\ response = NoResponse

\* A durable store that is up: the listing raises only when the database refuses the
\* statement.
StoreAnswers(t) ==
    /\ receipts(t)
    /\ response' = response =>
         \E ord \in Orderings(cached_receipts) :
            <<>> \in Window(ord, Paging(request)[1], Paging(request)[2])

NextPaging ==
    \E t \in RequestThreads :
        \/ StoreAnswers(t)
        \/ receipts_query(t)
        \/ receipts_failed(t)
        \/ refresh_access_token_load(t)

SpecPaging == InitPaging /\ [][NextPaging]_vars

\* Line 567: request.args.get('code'), here in the id of the request.
AuthCode == Key("code", "", 0)

\* connect, lines 555-562: the redirect to the authorization page.
connect(t) ==
    /\ t \in RequestThreads
    /\ request.endpoint = "connect"
    /\ response = NoResponse
    /\ pc[t] = "idle"
    /\ response' = Response(302, "authorize", 0, {}, <<>>)
    /\ UNCHANGED <<parsevars, RECEIPTS_API_KEY, request, workvars, SessionLocal, now, tokvars,
                   callvars, cachevars, fetchvars>>

\* callback, lines 567-578, handles the request: 400 with no code, 500 when the code
\* exchange is not answered with 200, otherwise save_tokens is called.
callback_request(t) ==
    /\ t \in RequestThreads
    /\ request.endpoint = "callback"
    /\ response = NoResponse
    /\ pc[t] = "idle"
    /\ IF request.id = NoKey
       THEN /\ response' = Response(400, "Missing code", 0, {}, <<>>)
            /\ UNCHANGED <<callvars, issued>>
       ELSE \E resp \in TokenResponses :
            /\ resp.status = 200 => issued < MaxIssued
            /\ IF resp.status # 200
               THEN /\ Enter(t, "callback", "done")
                    /\ response' = Response(500, "Token exchange failed", resp.status, {}, <<>>)
                    /\ UNCHANGED <<issued, new_tokens>>
               ELSE /\ Enter(t, "callback", "store")
                    /\ new_tokens' = [new_tokens EXCEPT ![t] = NewTokens(resp)]
                    /\ issued' = issued + 1
                    /\ UNCHANGED response
    /\ UNCHANGED <<parsevars, RECEIPTS_API_KEY, request, workvars, SessionLocal, now, tokens_table,
                   token_seq, token_file, last_saved, cachevars, fetchvars>>

\* callback, lines 579-580: save_tokens has returned; the redirect to the front end.
callback_redirect(t) ==
    /\ request.endpoint = "callback"
    /\ response = NoResponse
    /\ op[t] = "callback"
    /\ pc[t] = "done"
    /\ response' = Response(302, "connected", 0, {}, <<>>)
    /\ UNCHANGED <<parsevars, RECEIPTS_API_KEY, request, workvars, SessionLocal, now, tokvars,
                   callvars, cachevars, fetchvars>>

\* Credentials of a request: the x-app-key header and the api_key parameter.
Credentials == {<<h, q>> : h \in ApiKeys, q \in {"", "k"}}

\* Requests to every endpoint.
GateRequests ==
    LookupRequests
    \cup {ListRequest(c[1], c[2], NoArg, NoArg) : c \in Credentials}
    \cup {Request("webhook", c[1], c[2], NoKey, body) :
            c \in Credentials, body \in {Unparsable, JObj(<<"ID">>, <<JStr(IdKey("r1"))>>)}}
    \cup {Request("connect", c[1], c[2], NoKey, JNull) : c \in Credentials}
    \cup {Request("callback", c[1], c[2], id, JNull) : c \in Credentials, id \in {NoKey, AuthCode}}

\* Any request has arrived; the token endpoint has one more token set to issue.
InitGate == InitServing(GateRequests, MaxIssued - 1)

NextGate ==
    \/ NextLookup
    \/ \E t \in RequestThreads :
        \/ receipts(t)
        \/ receipts_query(t)
        \/ receipts_failed(t)
        \/ qbo_webhook(t)
        \/ connect(t)
        \/ callback_request(t)
        \/ callback_redirect(t)
        \/ save_tokens_file(t)
        \/ save_tokens_db_delete(t)
        \/ save_tokens_db_commit(t)

SpecGate == InitGate /\ [][NextGate]_vars

\* ----------------------------------------------------------------- claims

\* The caller's invocation of refresh_access_token has ended.
Ended(t) == rstat[t] \in {"returned", "raised"}

\* The token set the invocation loaded is more than 60 seconds from its expiry.
MoreThanMarginLeft(t) ==
    tokens[t][1].access_token # 0 /\ tokens[t][1].expires_at - tnow[t] > 60

\* C1: an invocation that loaded a token set with an access token more than 60
\* seconds before its expiry returned that access token, made no exchange and wrote
\* nothing; one that loaded a token set within 60 seconds of its expiry or past it,
\* with a refresh token, attempted exactly one exchange (and no invocation ever
\* attempts more than one).
C1_RefreshMargin ==
    \A t \in Threads :
        /\ posts[t] <= 1
        /\ (Ended(t) /\ tokens[t] # <<>>) =>
            /\ MoreThanMarginLeft(t) =>
                /\ rstat[t] = "returned"
                /\ ret[t] = tokens[t][1].access_token
                /\ posts[t] = 0
                /\ writes[t] = 0
            /\ (~MoreThanMarginLeft(t) /\ tokens[t][1].refresh_token # 0) => posts[t] = 1

\* One caller returned a token 120 seconds from expiry untouched while the other,
\* exactly 60 seconds from expiry, made its one exchange.
C1_Witness ==
    \E t, u \in Threads :
        /\ t # u /\ rstat[t] = "returned" /\ Ended(u)
        /\ tokens[t] # <<>> /\ tokens[u] # <<>>
        /\ tokens[t][1].expires_at - tnow[t] = 120
        /\ ret[t] = tokens[t][1].access_token /\ posts[t] = 0
        /\ tokens[u][1].expires_at - tnow[u] = 60
        /\ posts[u] = 1

\* The step in which save_tokens returns into refresh_access_token, which returns.
SaveReturns(t) ==
    op[t] = "refresh" /\ pc[t] \in {"store", "commit"} /\ rstat'[t] = "returned"

\* The token set of the answer, expiring its lifetime (3600 when the answer names
\* none) from now.
AnsweredSet(t) ==
    [access_token |-> new_tokens[t].access_token,
     refresh_token |-> new_tokens[t].refresh_token,
     expires_at |-> now + (IF new_tokens[t].has_expires_in
                           THEN new_tokens[t].expires_in ELSE 3600)]

\* C2 as stated: after every successful exchange the store holds exactly the new
\* token set, expiring now + lifetime, and the returned access token is the one
\* load_tokens returns.
C2_StoreHoldsNewSet ==
    [][\A t \in Threads : SaveReturns(t) =>
        /\ load_tokens' = <<AnsweredSet(t)>>
        /\ ret'[t] = load_tokens'[1].access_token]_vars

\* C2 amended: the new access token is returned either way; when the write commits,
\* load_tokens returns exactly the new token set (no field of the prior one),
\* expiring now + lifetime; when the write fails it is rolled back and the store is
\* left as it was.
C2_CommittedStoreHoldsNewSet ==
    [][\A t \in Threads : SaveReturns(t) =>
        /\ ret'[t] = new_tokens[t].access_token
        /\ IF writes'[t] = writes[t] + 1
           THEN /\ load_tokens' = <<AnsweredSet(t)>>
                /\ ret'[t] = load_tokens'[1].access_token
           ELSE UNCHANGED <<tokens_table, token_file>>]_vars

\* A refresh whose answer carried no refresh token replaced a set that had one.
C2_Witness ==
    \E t \in Threads :
        /\ rstat[t] = "returned" /\ op[t] = "refresh" /\ writes[t] = 1
        /\ tokens[t] # <<>> /\ tokens[t][1].refresh_token # 0
        /\ load_tokens # <<>>
        /\ load_tokens[1].access_token = ret[t]
        /\ load_tokens[1].access_token # tokens[t][1].access_token
        /\ load_tokens[1].refresh_token = 0

\* C3: refresh_access_token returns None, and does not raise, when no token set is
\* stored, when the stored one is stale and has no refresh token, and when the
\* exchange is answered with a non-success status; and an invocation that returns
\* None has written nothing to the token store.
C3_ReturnsNone ==
    \A t \in Threads :
        /\ (Ended(t) /\ tokens[t] = <<>>) => (rstat[t] = "returned" /\ ret[t] = 0)
        /\ (Ended(t) /\ tokens[t] # <<>> /\ ~MoreThanMarginLeft(t)
              /\ tokens[t][1].refresh_token = 0) => (rstat[t] = "returned" /\ ret[t] = 0)
        /\ (Ended(t) /\ status[t] \notin {0, 200}) => (rstat[t] = "returned" /\ ret[t] = 0)
        /\ (rstat[t] = "returned" /\ ret[t] = 0) => writes[t] = 0

\* One caller got None from a refused exchange and the other from a stale token set
\* with no refresh token, the store holding a token set throughout.
C3_Witness ==
    \E t, u \in Threads :
        /\ t # u /\ rstat[t] = "returned" /\ rstat[u] = "returned"
        /\ status[t] = 400 /\ posts[t] = 1 /\ ret[t] = 0
        /\ tokens[u] # <<>> /\ tokens[u][1].refresh_token = 0 /\ posts[u] = 0 /\ ret[u] = 0
        /\ load_tokens # <<>>

\* C4 as stated: the token table holds at most one row, and load_tokens returns the
\* token set of the most recently completed save_tokens.
C4_SingleRow ==
    /\ Cardinality(tokens_table) <= 1
    /\ load_tokens = last_saved

\* cache_receipt_in_db returns to fetch_and_cache_receipt.
PutReturns(t) == pc[t] \in {"select", "write"} /\ pc'[t] = "mem"

\* After the step the durable store holds exactly one entry for k, with payload p, the
\* raw document p was parsed from, and the created-timestamp of the entry k had before
\* the step (of this call, the first, when it had none); the other entries are as before.
UpsertedInPlace(k, p) ==
    /\ \E row \in cached_receipts' :
        /\ {x \in cached_receipts' : x.receipt_id = k} = {row}
        /\ row.payload = p
        /\ row.raw = RawOf(p)
        /\ row.created_at = IF Rows(k) = {} THEN now
                            ELSE (CHOOSE x \in Rows(k) : TRUE).created_at
    /\ {x \in cached_receipts' : x.receipt_id # k} = {x \in cached_receipts : x.receipt_id # k}

\* C5 (as stated): every sequential cache_receipt_in_db call with an identifier leaves
\* exactly one durable entry for it, holding the call's payload and raw and the
\* created-timestamp of the first call, and leaves the entries of other identifiers
\* unchanged.
C5_IdempotentUpsert ==
    [][\A t \in RequestThreads :
        SessionLocal /\ PutReturns(t) => UpsertedInPlace(canon[t], parsed[t][1])]_vars

\* C5 (amended): a sequential cache_receipt_in_db call whose write commits leaves exactly
\* one durable entry for its identifier, holding the call's payload and raw and the
\* created-timestamp of the first committed call, and leaves the entries of other
\* identifiers unchanged; a call whose write fails leaves the durable store unchanged.
C5_CommittedUpsert ==
    [][\A t \in RequestThreads :
        PutReturns(t) =>
            IF wres'[t] = "committed"
            THEN UpsertedInPlace(canon[t], parsed[t][1])
            ELSE cached_receipts' = cached_receipts]_vars

\* Two committed calls for one identifier with different payloads, a tick apart, have
\* left one entry with the first call's created-timestamp and the second's payload,
\* beside the entry of another identifier.
C5_Witness ==
    \E t \in RequestThreads : \E row \in cached_receipts :
        /\ pc[t] = "mem" /\ wres[t] = "committed"
        /\ Rows(canon[t]) = {row}
        /\ row.created_at < row.updated_at
        /\ row.payload = parsed[t][1]
        /\ row.payload.ver = 2
        /\ \E x \in cached_receipts : x.receipt_id # canon[t]

\* C6: when a fetch_and_cache_receipt call completes its durable write while a concurrent
\* call for the same canonical identifier has already written, and no durable-store
\* fault occurs, the store holds exactly one entry for the identifier, with the payload
\* of the call that wrote last.
C6_LastWriteWins ==
    [][\A t \in Threads : \A u \in Threads \ {t} :
        /\ pc[t] = "write" /\ pc'[t] = "mem" /\ wres'[t] # "error"
        /\ pc[u] = "mem" /\ wres[u] = "committed" /\ canon[u] = canon[t]
        => \E row \in cached_receipts' :
             /\ {x \in cached_receipts' : x.receipt_id = canon[t]} = {row}
             /\ row.payload = parsed[t][1]]_vars

\* C7: get_cached_receipt_db(id) returns the process-local entry of id, when there is
\* one, without a durable read; on a process-local miss with a durable store it reads the
\* store once by id, and on a durable hit returns the entry's payload with the
\* process-local cache holding that payload under id; on a miss in both tiers it returns
\* None and leaves both tiers unchanged.
C7_TwoTierGet ==
    [][\A t \in RequestThreads :
        /\ get_cached_receipt_db_mem(t) =>
             /\ dbreads'[t] = 0
             /\ UNCHANGED <<INMEM_CACHE, cached_receipts>>
             /\ IF rid'[t] \in DOMAIN INMEM_CACHE
                THEN pc'[t] = "done" /\ cret'[t] = <<INMEM_CACHE[rid'[t]]>>
                ELSE cret'[t] = <<>> /\ pc'[t] = (IF SessionLocal THEN "gdb" ELSE "done")
        /\ get_cached_receipt_db_select(t) /\ wres'[t] # "error" =>
             /\ dbreads'[t] = 1
             /\ pc'[t] = "done"
             /\ UNCHANGED cached_receipts
             /\ IF Rows(rid[t]) # {}
                THEN \E row \in Rows(rid[t]) :
                        /\ cret'[t] = <<row.payload>>
                        /\ rid[t] \in DOMAIN INMEM_CACHE'
                        /\ INMEM_CACHE'[rid[t]] = row.payload
                ELSE cret'[t] = <<>> /\ UNCHANGED INMEM_CACHE]_vars

\* A get has missed the process-local cache, hit the durable store and returned the
\* entry's payload, which the process-local cache now holds.
C7_Witness ==
    \E t \in RequestThreads :
        /\ op[t] = "get" /\ pc[t] = "done"
        /\ dbreads[t] = 1
        /\ cret[t] # <<>>
        /\ rid[t] \in DOMAIN INMEM_CACHE
        /\ INMEM_CACHE[rid[t]] = cret[t][1]
        /\ \E row \in Rows(rid[t]) : row.payload = cret[t][1]

\* C8: the durable store and the process-local cache each hold at most one entry derived
\* from any one external receipt.
C8_OneEntryPerReceipt ==
    \A r \in Receipts :
        /\ Cardinality({row \in cached_receipts : row.payload.rcpt = r}) <= 1
        /\ Cardinality({k \in DOMAIN INMEM_CACHE : INMEM_CACHE[k].rcpt = r}) <= 1

\* A durable write of caller t fails on this step.
WriteFails(t) ==
    /\ pc[t] \in {"select", "write"}
    /\ wres[t] = "none"
    /\ wres'[t] \in {"error", "conflict"}

\* C9: a cache operation raises only out of an HTTP call, never out of the durable
\* store; with no durable store nothing is read from or written to one; a get whose
\* durable read raises returns None; a durable write that raises leaves the store
\* unchanged, and the call goes on to put the normalized receipt in the process-local
\* cache and to return it.
C9_StoreErrorsSwallowed ==
    [][\A t \in RequestThreads :
        /\ pc'[t] = "raised" /\ pc[t] # "raised" => pc[t] \in {"post", "get"}
        /\ ~SessionLocal => cached_receipts' = {} /\ dbreads'[t] = 0
        /\ get_cached_receipt_db_select(t) /\ wres'[t] = "error" =>
             pc'[t] = "done" /\ cret'[t] = <<>>
        /\ WriteFails(t) => pc'[t] = "mem" /\ cached_receipts' = cached_receipts
        /\ pc[t] = "mem" /\ pc'[t] # "mem" =>
             /\ pc'[t] = "done"
             /\ cret'[t] = parsed[t]
             /\ canon[t] \in DOMAIN INMEM_CACHE'
             /\ INMEM_CACHE'[canon[t]] = parsed[t][1]]_vars

\* A fetch whose durable write raised has returned the normalized receipt; the
\* process-local cache holds it and the durable store has no entry for it.
C9_Witness ==
    \E t \in RequestThreads :
        /\ op[t] = "fetch" /\ pc[t] = "done"
        /\ wres[t] = "error"
        /\ cret[t] # <<>>
        /\ cret[t][1].receiptNumber \in DOMAIN INMEM_CACHE
        /\ INMEM_CACHE[cret[t][1].receiptNumber] = cret[t][1]
        /\ Rows(cret[t][1].receiptNumber) = {}

\* The tasks worker_loop has taken and finished with.
Processed == nEnq - Len(WORKER_Q) - (IF wloop = "task" THEN 1 ELSE 0)

\* C10: the consumer loop never ends, whatever the tasks and whatever their processing
\* raises, and every task put on the queue is eventually taken and finished with.
C10_LoopSurvives ==
    /\ [](wloop # "dead")
    /\ \A n \in 1..MaxTasks : (nEnq >= n) ~> (wloop # "dead" /\ Processed >= n)

\* The loop has caught an exception for each of two tasks, and has then finished with a
\* later task that raised nothing.
C10_Witness ==
    /\ errs = 2
    /\ nEnq = 3
    /\ Processed = 3
    /\ wloop = "get"
    /\ pc["wrk"] = "done"
    /\ cret["wrk"] # <<>>

\* The token store holds a refresh token.
StoredRefresh == load_tokens # <<>> /\ load_tokens[1].refresh_token # 0

\* The token store holds an access token that is more than 60 seconds from expiry.
Healthy ==
    /\ load_tokens # <<>>
    /\ load_tokens[1].access_token # 0
    /\ load_tokens[1].expires_at - now > 60

RECURSIVE Members(_)
Members(v) ==
    {<<v.keys[i], v.kids[i]>> : i \in DOMAIN v.keys}
    \cup UNION {Members(v.kids[i]) : i \in DOMAIN v.kids}

\* The strings and integers that v holds under a key that is entityId, id or entity in
\* any case.
Identifiers(v) ==
    {m[2].v : m \in {x \in Members(v) : /\ x[1] \in {"entityId", "ID", "Entity"}
                                        /\ x[2].k \in {"str", "int"}}}

\* The receipt ids of the tasks the step puts on the queue, in order.
Enqueued ==
    [i \in 1..(Len(WORKER_Q') - Len(WORKER_Q)) |-> WORKER_Q'[Len(WORKER_Q) + i].receipt_id]

\* C12: a webhook request whose payload is accepted puts one fetch_and_cache task on the
\* queue for every identifier of the payload, and no identifier twice.
C12_WebhookExtraction ==
    [][\A t \in RequestThreads :
        qbo_webhook(t) /\ response'.code = 200 =>
            /\ SubSeq(WORKER_Q', 1, Len(WORKER_Q)) = WORKER_Q
            /\ \A id \in Identifiers(request.body) : \E i \in DOMAIN Enqueued : Enqueued[i] = id
            /\ \A i, j \in DOMAIN Enqueued : i # j => Enqueued[i] # Enqueued[j]
            /\ \A i \in DOMAIN Enqueued :
                 WORKER_Q'[Len(WORKER_Q) + i] = Task("dict", "fetch_and_cache", Enqueued[i])]_vars

\* A payload that holds one identifier twice, as a string and, one level down and under
\* a key in capitals, as an integer, has put one task on the queue.
C12_Witness ==
    /\ request.endpoint = "webhook"
    /\ response.code = 200
    /\ request.body = JObj(<<"entityId", "data">>,
                           <<JStr(IdKey("r1")), JObj(<<"ID">>, <<JInt(IdKey("r1"))>>)>>)
    /\ response.queued = {IdKey("r1")}
    /\ WORKER_Q = <<Task("dict", "fetch_and_cache", IdKey("r1"))>>

\* C13: the webhook answers 400, and puts nothing on the queue, exactly when the body is
\* no JSON; every body that is JSON gets 200 with the set of the identifiers queued.
C13_WebhookStatus ==
    [][\A t \in RequestThreads :
        qbo_webhook(t) =>
            IF request.body = Unparsable
            THEN response'.code = 400 /\ WORKER_Q' = WORKER_Q
            ELSE /\ response'.code = 200
                 /\ response'.queued = {Enqueued[i] : i \in DOMAIN Enqueued}]_vars

\* The GET of the caller's fetch was answered with a status other than 200.
UpstreamRefused(t) ==
    /\ op[t] = "fetch"
    /\ pc[t] = "done"
    /\ posts[t] = 0
    /\ status[t] \notin {0, 200}

\* C14: whenever the accounting API answers the GET of a lookup (/receipt/<id>, /thermal,
\* /pdf) with a status other than 200, the response is an upstream-error response that
\* carries that status, not the not-found response.
C14_UpstreamErrorsReported ==
    [][\A t \in RequestThreads :
        receipt_lookup_fetched(t) /\ UpstreamRefused(t) =>
            /\ response'.code = 502
            /\ response'.status = status[t]
            /\ response'.kind # "Not found"]_vars

\* The request carries no credential equal to the configured key.
Rejected == RECEIPTS_API_KEY # NoApiKey /\ ~require_api_key(request)

\* C15: with a static key configured, a request to any endpoint whose header and query
\* parameter both differ from the key is answered 403 and changes no state: no token
\* write, no cache write, no task enqueued, no external call; with no key configured no
\* request is answered 403.
C15_EveryEndpointGated ==
    /\ [][Rejected =>
            /\ response' \in {response, Response(403, "Forbidden", 0, {}, <<>>)}
            /\ UNCHANGED <<tokens_table, token_file, issued, cached_receipts, INMEM_CACHE,
                           WORKER_Q, posts, pc>>]_vars
    /\ [](RECEIPTS_API_KEY = NoApiKey => response.code # 403)

\* The fallback listing has answered with receipts.
Listed == response.code = 200 /\ response.kind = "receipts"

\* Receipt record p has a cache entry under key k.
HasEntry(k, p) ==
    \/ k \in DOMAIN INMEM_CACHE /\ INMEM_CACHE[k] = p
    \/ \E row \in Rows(k) : row.payload = p

Populated ==
    \A i \in DOMAIN response.receipt :
        HasEntry(response.receipt[i].receiptNumber, response.receipt[i])

\* C16: when GET /receipts is served by the live query, exactly one fetch_and_cache task
\* is put per returned receipt, and with both threads scheduled, a readable token store
\* and an answering API, each returned receipt eventually has a cache entry under its
\* receipt number that holds its normalized record.
C16_ListingPopulatesCache ==
    /\ [][\A t \in RequestThreads :
            receipts_query(t) /\ response'.code = 200 =>
                /\ Len(WORKER_Q') = Len(WORKER_Q) + Len(response'.receipt)
                /\ \A i \in DOMAIN response'.receipt :
                     WORKER_Q'[Len(WORKER_Q) + i] =
                        Task("dict", "fetch_and_cache", response'.receipt[i].receiptNumber)]_vars
    /\ Listed ~> Populated

\* The payloads of the stored receipts, last updated first.
StoredOrder ==
    LET ord == CHOOSE o \in Orderings(cached_receipts) : TRUE
    IN  [i \in DOMAIN ord |-> ord[i].payload]

\* C17: with a durable store of N entries and integer (or absent) page and per_page,
\* GET /receipts returns the entries at positions (page-1)*per_page up to but excluding
\* page*per_page of the descending-last-updated order, with page below 1 taken as 1 and
\* per_page above 50 as 50, reports total = N, and returns at most 50 items.
C17_StorePagination ==
    [][\A t \in RequestThreads :
        receipts(t) /\ request.args[1].kind # "text" /\ request.args[2].kind # "text" =>
            LET page == Max(IntOf(request.args[1], 1), 1)
                per_page == Min(IntOf(request.args[2], 20), 50)
                N == Cardinality(cached_receipts)
            IN  /\ response'.kind = "receipts"
                /\ response'.receipt =
                     SubSeq(StoredOrder, (page - 1) * per_page + 1, Min(page * per_page, N))
                /\ response'.paging = <<page, per_page, N>>
                /\ Len(response'.receipt) <= 50]_vars

\* The nine fields of a parsed receipt.
NineFields ==
    {"receiptNumber", "createdAt", "customerName", "customerContact", "servedBy", "items",
     "taxes", "payments", "total"}

\* C18: parse_salesreceipt is total: for any JSON object (the empty object, known fields
\* that are null or of an unexpected JSON type) the call returns a record with all nine
\* fields and never raises.
C18_ParserTotal ==
    [][parse_salesreceipt_call =>
          /\ outcome' = "returned"
          /\ DOMAIN record'[1] = NineFields]_vars

\* The member of a JSON value under a key, Absent when the value is no object or has no
\* such member; the elements of its array under a key.
Field(d, key) ==
    IF d.k = "obj" /\ \E i \in DOMAIN d.keys : d.keys[i] = key
    THEN d.kids[CHOOSE i \in DOMAIN d.keys : d.keys[i] = key]
    ELSE Absent
ArrayOf(d, key) == IF Field(d, key).k = "arr" THEN Field(d, key).kids ELSE <<>>

\* The defaults of one line item, one tax line, one payment.
ItemDefaults(line, item) ==
    LET detail == Field(line, "SalesItemLineDetail") IN
    /\ Field(detail, "Qty") = Absent /\ Field(detail, "Quantity") = Absent =>
          item.quantity = JNum(0)
    /\ Field(detail, "UnitPrice") = Absent => item.unit_price = JNum(0)
    /\ Field(line, "Amount") = Absent => item.amount = JNum(0)
    /\ Field(Field(detail, "ItemRef"), "name") = Absent => item.name = EmptyText
    /\ Field(line, "Description") = Absent => item.description = EmptyText
    /\ Field(Field(detail, "TaxCodeRef"), "value") = Absent => item.tax_code = EmptyText
TaxDefaults(tline, tax) ==
    /\ Field(tline, "Amount") = Absent => tax.amount = JNum(0)
    /\ Field(tline, "DetailType") = Absent => tax.detail_type = EmptyText
PaymentDefaults(p, payment) ==
    /\ Field(p, "Amount") = Absent => payment.amount = JNum(0)
    /\ Field(Field(p, "PaymentMethodRef"), "name") = Absent => payment.method = EmptyText

\* C19: in every record parse_salesreceipt returns, a numeric field whose upstream value
\* is absent is zero and an optional string field whose upstream value is absent is the
\* empty string, not null: the top-level fields, and the fields of each line item (tax
\* code included), each tax line (type included) and each payment (method included).
C19_DefaultsNotNull ==
    outcome = "returned" =>
        LET s == document
            r == record[1]
        IN  /\ Field(s, "TotalAmt") = Absent /\ Field(s, "Total") = Absent => r.total = JNum(0)
            /\ Field(Field(s, "CustomerRef"), "name") = Absent => r.customerName = EmptyText
            /\ /\ Field(Field(s, "BillAddr"), "Line1") = Absent
               /\ Field(Field(s, "ShipAddr"), "Line1") = Absent
               /\ Field(Field(s, "BillEmail"), "Address") = Absent
               => r.customerContact = EmptyText
            /\ \A i \in DOMAIN r.items : ItemDefaults(ArrayOf(s, "Line")[i], r.items[i])
            /\ \A i \in DOMAIN r.taxes : TaxDefaults(ArrayOf(s, "TaxLine")[i], r.taxes[i])
            /\ \A i \in DOMAIN r.payments :
                 PaymentDefaults(ArrayOf(s, "Payment")[i], r.payments[i])

\* What a reference field yields: its name, or else its value, when a non-empty string.
NonEmpty(x) == x.k = "text" /\ x.words # <<>>
RefValue(s, field) ==
    IF NonEmpty(Field(Field(s, field), "name")) THEN Field(Field(s, field), "name")
    ELSE IF NonEmpty(Field(Field(s, field), "value")) THEN Field(Field(s, field), "value")
    ELSE EmptyText
NoRefValue(s) ==
    \A f \in {"LocationRef", "ClassRef", "DepartmentRef"} : ~NonEmpty(RefValue(s, f))

\* The server the memos of the documents name: 'Served By : Ann' and 'served by ann'
\* name Ann, 'Thanks' and 'x' name themselves, the two-line memo names Bob; 'Served by :', the blank
\* memo and the absent memo name nobody.
MemoServer(s) ==
    LET memo == Field(Field(s, "CustomerMemo"), "value") IN
    CASE memo \in {JText(<<"Served", "By", ":", "Ann">>), JText(<<"served", "by", "ann">>)} ->
             JText(<<"Ann">>)
      [] memo \in {JText(<<"Thanks">>), JText(<<"x">>)} -> memo
      [] memo = JText(<<"Thanks", "\n", "Served", "By", ":", "Bob", " ">>) -> JText(<<"Bob">>)
      [] OTHER -> EmptyText

\* The values the custom fields of a document carry.
CustomValues(s) ==
    {Field(ArrayOf(s, "CustomField")[i], f) :
        i \in DOMAIN ArrayOf(s, "CustomField"), f \in {"StringValue", "Value"}}

\* C20: served-by resolution takes (a) the reference fields, (b) the memo, (c) the custom
\* fields, first non-empty wins: a non-empty location reference wins over a memo with
\* "served by"; location precedes class, class precedes department, name precedes value;
\* the memo is used only when no reference field yields a non-empty value, the custom
\* fields only when neither does.
C20_ServedByPriority ==
    outcome # "none" =>
        LET s == document
            loc == RefValue(s, "LocationRef")
            cls == RefValue(s, "ClassRef")
            dep == RefValue(s, "DepartmentRef")
        IN  /\ ~NoRefValue(s) =>
                 /\ outcome = "returned"
                 /\ record[1].servedBy =
                      IF NonEmpty(loc) THEN loc ELSE IF NonEmpty(cls) THEN cls ELSE dep
            /\ NoRefValue(s) /\ outcome = "returned" =>
                 IF NonEmpty(MemoServer(s))
                 THEN record[1].servedBy = MemoServer(s)
                 ELSE record[1].servedBy \in CustomValues(s) \cup {EmptyText}

\* A document with the location reference Kiosk and the memo 'Served By : Ann' has
\* resolved to Kiosk.
C20_Witness ==
    /\ outcome = "returned"
    /\ Field(document, "LocationRef") = Named(<<"Kiosk">>)
    /\ Field(Field(document, "CustomerMemo"), "value") = JText(<<"Served", "By", ":", "Ann">>)
    /\ record[1].servedBy = JText(<<"Kiosk">>)

\* worker_loop has gone on from WORKER_Q.get() with the given task: the call the task
\* asks for has started, or the task is finished with already.
Dispatched(task) ==
    IF task = RefreshTask
    THEN wloop' = "task" /\ op'["wrk"] = "refresh" /\ pc'["wrk"] = "load"
    ELSE IF task \in FetchTasks /\ task.receipt_id # NoKey
    THEN wloop' = "task" /\ op'["wrk"] = "fetch" /\ rid'["wrk"] = task.receipt_id
    ELSE wloop' = "get" /\ UNCHANGED <<pc, op, rid>>

\* C21: tasks are processed in enqueue order: whoever the producers are, a task joins the
\* one queue at its tail and nothing else changes, the single consumer takes the task at
\* the head, only when it has finished with the one before, and works on that very
\* task; no task leaves the queue otherwise, so none is dropped or taken twice, and
\* every enqueued task is eventually finished with.
C21_EnqueueOrder ==
    /\ [][\/ WORKER_Q' = WORKER_Q
          \/ /\ \E task \in Tasks : WORKER_Q' = Append(WORKER_Q, task)
             /\ nEnq' = nEnq + 1
             /\ UNCHANGED <<wloop, pc, op, rid>>
          \/ /\ WORKER_Q # <<>>
             /\ WORKER_Q' = Tail(WORKER_Q)
             /\ wloop = "get"
             /\ Dispatched(Head(WORKER_Q))
             /\ nEnq' = nEnq]_vars
    /\ \A n \in 1..MaxTasks : (nEnq >= n) ~> (Processed >= n)

\* Two different tasks wait in the queue, a fetch before a task of another type, while
\* the consumer works on the refresh that was put before them.
C21_Witness ==
    /\ wloop = "task"
    /\ op["wrk"] = "refresh"
    /\ nEnq = 3
    /\ WORKER_Q = <<Task("dict", "fetch_and_cache", IdKey("r1")), Task("dict", "other", NoKey)>>

\* A caller is in the refresh exchange of line 198; it is in save_tokens (line 204).
Exchanging(t) == pc[t] = "post"
Writing(t) == pc[t] \in {"store", "commit"}

\* Both callers of refresh_access_token have read the same stored token set and found
\* it expired.
SameExpiredToken(t, u) ==
    /\ rstat[t] # "none" /\ rstat[u] # "none"
    /\ tokens[t] # <<>> /\ tokens[t] = tokens[u]
    /\ ~TokenIsFresh(tokens[t][1], tnow[t]) /\ ~TokenIsFresh(tokens[u][1], tnow[u])

\* C22: the token table has a single writer: never are two refresh exchanges or two
\* token-store writes in progress at once, and when a request thread (in
\* qbo_get_salesreceipt_by_id) and the consumer have read the same expired token, its
\* refresh token goes into one refresh exchange only and the store is written once.
C22_SingleWriter ==
    \A t \in RequestThreads, u \in Threads \ RequestThreads :
        /\ ~(Exchanging(t) /\ Exchanging(u))
        /\ ~(Writing(t) /\ Writing(u))
        /\ SameExpiredToken(t, u) => posts[t] + posts[u] <= 1 /\ writes[t] + writes[u] <= 1

\* The lookup was answered with the receipt fetch_and_cache_receipt returned for the
\* identifier of the request.
FetchAnswered(t) ==
    /\ response.code = 200
    /\ op[t] = "fetch" /\ pc[t] = "done" /\ cret[t] # <<>>
    /\ response.receipt = cret[t]

\* C23: after fetch_and_cache_receipt(id) has returned a receipt, the next lookup of the
\* same id finds that receipt in the cache, in the process-local cache or, when it goes
\* on to the durable store, there, so that no external API call follows; for every raw
\* document, also one whose DocNumber is not the identifier.
C23_FetchThenHit ==
    [][\A t \in RequestThreads :
        receipt_lookup_again(t) /\ FetchAnswered(t) =>
            \/ pc'[t] = "done" /\ cret'[t] = cret[t]
            \/ /\ pc'[t] = "gdb"
               /\ \E row \in Rows(request.id) : row.payload = cret[t][1]]_vars

\* No fetch_and_cache_receipt call is in progress.
Quiescent == \A t \in Threads : ~(op[t] = "fetch" /\ pc[t] \notin Rest)

\* C24: the two cache tiers agree once writers are quiescent: whenever no
\* fetch_and_cache_receipt call is in progress, an identifier present in both the
\* process-local cache and the durable store has the same payload in both, for every
\* interleaving of concurrent fetch_and_cache_receipt and get_cached_receipt_db calls.
C24_TiersAgree ==
    Quiescent =>
        \A k \in DOMAIN INMEM_CACHE : \A row \in Rows(k) : row.payload = INMEM_CACHE[k]

====
